---- MODULE Spec2Model ----
(***************************************************************************)
(* Verification model of the line-validation engine of mcp-debugger.       *)
(*                                                                         *)
(* src/src/validation/validation-manager.ts holds two classes named        *)
(* ValidationManager:                                                      *)
(*   impl = "A"  lines 1-499   the sweep follows the execution position   *)
(*                             (validateExecution, stepAndWait)            *)
(*   impl = "B"  lines 500-979 the sweep walks the lines of a file         *)
(*                             (validateFile, validateLine)                *)
(* Both are modelled over the same state; Init chooses which class is      *)
(* instantiated.  SpecA and SpecB fix the choice.                          *)
(*                                                                         *)
(* A line of source text is a sequence of one-character strings.           *)
(***************************************************************************)
EXTENDS Integers, Sequences, FiniteSets, TLC

\* ------------------------------------------------------------------ text

IsSpace(c) == c \in {" ", "\t"}

\* \w of the regular expressions: the letters, digits and "_" the texts use
IsWord(c) ==
    c \in {"a","b","c","d","e","f","g","h","i","j","k","l","m","n","o","p","q",
           "r","s","t","u","v","w","x","y","z","F","K","1","2","_"}

StartsWith(s, p) == Len(s) >= Len(p) /\ SubSeq(s, 1, Len(p)) = p

EndsWith(s, p) == Len(s) >= Len(p) /\ SubSeq(s, Len(s) - Len(p) + 1, Len(s)) = p

Includes(s, p) == \E i \in 1..(Len(s) - Len(p) + 1) : SubSeq(s, i, i + Len(p) - 1) = p

\* String.prototype.trim
Trim(s) ==
    IF \A i \in 1..Len(s) : IsSpace(s[i]) THEN <<>>
    ELSE LET a == CHOOSE i \in 1..Len(s) :
                     ~IsSpace(s[i]) /\ \A j \in 1..(i - 1) : IsSpace(s[j])
             b == CHOOSE i \in 1..Len(s) :
                     ~IsSpace(s[i]) /\ \A j \in (i + 1)..Len(s) : IsSpace(s[j])
         IN  SubSeq(s, a, b)

\* /\w+\s*\(/.test(s)
MatchesCall(s) ==
    \E i \in 1..Len(s) : \E j \in (i + 1)..Len(s) :
        /\ IsWord(s[i])
        /\ s[j] = "("
        /\ \A k \in (i + 1)..(j - 1) : IsSpace(s[k])

\* /^(if|elif|else|for|while|try|except|finally|with)/.test(s)
MatchesControl(s) ==
    \E kw \in { <<"i","f">>, <<"e","l","i","f">>, <<"e","l","s","e">>,
                <<"f","o","r">>, <<"w","h","i","l","e">>, <<"t","r","y">>,
                <<"e","x","c","e","p","t">>, <<"f","i","n","a","l","l","y">>,
                <<"w","i","t","h">> } : StartsWith(s, kw)

\* /^\s+def /.test(s)
MatchesIndentedDef(s) ==
    \E i \in 2..Len(s) :
        /\ \A k \in 1..(i - 1) : IsSpace(s[k])
        /\ StartsWith(SubSeq(s, i, Len(s)), <<"d","e","f"," ">>)

\* /^[\]\)\}]+[,;]?$/.test(s)
MatchesClosingOnly(s) ==
    /\ Len(s) >= 1
    /\ s[1] \in {"]", ")", "}"}
    /\ \A i \in 1..(Len(s) - 1) : s[i] \in {"]", ")", "}"}
    /\ s[Len(s)] \in {"]", ")", "}", ",", ";"}

\* (line.match(/<d><d><d>/g) || []).length : non-overlapping matches, left to right
RECURSIVE CountTriple(_, _, _)
CountTriple(s, d, i) ==
    IF i + 2 > Len(s) THEN 0
    ELSE IF s[i] = d /\ s[i + 1] = d /\ s[i + 2] = d
         THEN 1 + CountTriple(s, d, i + 3)
         ELSE CountTriple(s, d, i + 1)

DQ == "\""
SQ == "'"
TripleDouble == <<DQ, DQ, DQ>>
TripleSingle == <<SQ, SQ, SQ>>

\* ------------------------------------------------- PythonLineAnalyzer

RECURSIVE QuoteScan(_, _), QuoteScanAnyStyle(_, _)

\* a scan in which an odd number of delimiters of either style closes the open
\* span, whatever its style
QuoteScanAnyStyle(lines, n) ==
    IF n = 0 THEN <<FALSE, "none">>
    ELSE LET prev == QuoteScanAnyStyle(lines, n - 1)
             cd   == CountTriple(lines[n], DQ, 1)
             cs   == CountTriple(lines[n], SQ, 1)
             afterD ==
                 IF cd % 2 = 1
                 THEN IF ~prev[1] THEN <<TRUE, "double">> ELSE <<FALSE, "none">>
                 ELSE prev
         IN  IF cs % 2 = 1
             THEN IF ~afterD[1] THEN <<TRUE, "single">> ELSE <<FALSE, "none">>
             ELSE afterD

\* The pair <<inTripleQuote, quoteType>> after scanning lines[1..n]
QuoteScan(lines, n) ==
    IF n = 0 THEN <<FALSE, "none">>
    ELSE LET prev == QuoteScan(lines, n - 1)
             cd   == CountTriple(lines[n], DQ, 1)
             cs   == CountTriple(lines[n], SQ, 1)
             afterD ==
                 IF cd > 0 /\ cd % 2 = 1
                 THEN IF ~prev[1] THEN <<TRUE, "double">>
                      ELSE IF prev[2] = "double" THEN <<FALSE, "none">>
                      ELSE prev
                 ELSE prev
         IN  IF cs > 0 /\ cs % 2 = 1
             THEN IF ~afterD[1] THEN <<TRUE, "single">>
                  ELSE IF afterD[2] = "single" THEN <<FALSE, "none">>
                  ELSE afterD
             ELSE afterD

\* isInsideMultiLineString(lineIndex, lines), lineIndex 0-based
isInsideMultiLineString(lineIndex, lines) == QuoteScan(lines, lineIndex)[1]

\* PythonLineAnalyzer.isExecutableLine(line, lineNumber, allLines)
AnalyzerIsExecutable(lineNumber, allLines) ==
    LET trimmed == Trim(allLines[lineNumber])
    IN  /\ ~(trimmed = <<>> \/ StartsWith(trimmed, <<"#">>))
        /\ ~(StartsWith(trimmed, TripleDouble) \/ StartsWith(trimmed, TripleSingle))
        /\ ~isInsideMultiLineString(lineNumber - 1, allLines)
        /\ ~StartsWith(trimmed, <<"@">>)
        /\ ~(StartsWith(trimmed, <<"c","l","a","s","s"," ">>)
             \/ StartsWith(trimmed, <<"d","e","f"," ">>))
        /\ ~(StartsWith(trimmed, <<"i","m","p","o","r","t"," ">>)
             \/ StartsWith(trimmed, <<"f","r","o","m"," ">>))
        /\ ~EndsWith(trimmed, <<"\\">>)
        /\ ~MatchesClosingOnly(trimmed)

\* ---------------------------------------- ValidationManager line analysis

\* impl B: analyzeLineWaiting(filePath, lineNum, content).type
analyzeLineWaiting(content) ==
    LET trimmed == Trim(content)
    IN  IF StartsWith(trimmed, <<"i","m","p","o","r","t"," ">>)
           \/ StartsWith(trimmed, <<"f","r","o","m"," ">>) THEN "import"
        ELSE IF StartsWith(trimmed, <<"d","e","f"," ">>) THEN "function_def"
        ELSE IF MatchesIndentedDef(content) THEN "method_def"
        ELSE IF StartsWith(trimmed, <<"r","e","t","u","r","n">>) THEN "return"
        ELSE IF MatchesControl(trimmed) THEN "control"
        ELSE IF Includes(trimmed, <<"=">>) /\ ~Includes(trimmed, <<"=","=">>)
             THEN "assignment"
        ELSE IF MatchesCall(trimmed) THEN "function_call"
        ELSE "other"

\* impl B: lineInfo.functionCalls is set, and non-empty, exactly for the type
\* function_call (extractFunctionCalls returns every match of the same regex)
HasFunctionCalls(content) == analyzeLineWaiting(content) = "function_call"

\* impl B: isExecutableLine(lineInfo)
isExecutableLine(content) ==
    LET trimmed == Trim(content)
    IN  /\ analyzeLineWaiting(content) \notin {"import", "function_def", "method_def"}
        /\ ~(trimmed = <<>> \/ StartsWith(trimmed, <<"#">>) \/ trimmed = <<"p","a","s","s">>)

\* impl A: looksLikeFunctionCall(line)
looksLikeFunctionCall(line) ==
    LET trimmed == Trim(line)
    IN  /\ MatchesCall(trimmed)
        /\ ~StartsWith(trimmed, <<"d","e","f"," ">>)
        /\ ~StartsWith(trimmed, <<"c","l","a","s","s"," ">>)
        /\ ~StartsWith(trimmed, <<"i","f"," ">>)
        /\ ~StartsWith(trimmed, <<"w","h","i","l","e"," ">>)
        /\ ~StartsWith(trimmed, <<"f","o","r"," ">>)


\* ------------------------------------------------------------ bounds

\* startValidation invocations in one behaviour
MaxCalls == 2
\* target-side failures (failed steps, timed-out waits, failed narration) the
\* environment produces in one behaviour
MaxFaults == 1
\* edits of the start file's content in one behaviour
MaxEdits == 1
\* lines of a file given to the line analyzer
MaxLines == 3

\* ------------------------------------------------------ files under test

MainFile == "main.py"
LibFile == "lib.py"
Files == {MainFile, LibFile}

\* the scenario of spec section 8: import, assignment, call
TextScenario == << <<"i","m","p","o","r","t"," ","o","s">>,
                   <<"x"," ","="," ","1">>,
                   <<"p","r","i","n","t","(","x",")">> >>
\* a class statement, a call statement, a closing bracket
TextClass == << <<"c","l","a","s","s"," ","K",":">>,
                <<"r","u","n","(","1",")">>,
                <<")">> >>
MainTexts == {TextScenario, TextClass}
\* the callee's file
LibText == << <<"d","e","f"," ","r","u","n","(","n",")",":">>,
              <<" "," "," "," ","l","o","g","(","n",")">>,
              <<" "," "," "," ","r","e","t","u","r","n"," ","n">> >>
\* a start file whose second line is the body of a function and calls into
\* the callee's file
TextFollow == << <<"d","e","f"," ","m","a","i","n","(",")",":">>,
                 <<" "," "," "," ","r","u","n","(","1",")">>,
                 <<"m","a","i","n","(",")">> >>

\* fs.readFile(f).split('\n')
FileLines(t, f) == IF f = MainFile THEN t ELSE LibText

\* the positions a stack frame can report
Positions(t) == { <<f, n>> : f \in Files, n \in 1..3 } \cap
                { p \in Files \X (1..3) : p[2] <= Len(FileLines(t, p[1])) }

\* the lines of the start file at which the program under test stops
StopLines == {2, 3}
MainPositions(t) == { p \in Positions(t) : p[1] = MainFile /\ p[2] \in StopLines }

\* the stops of the program of TextFollow, each with the frames of the stack
\* there: the body of main() is one frame above the entry script, the callee's
\* lines one frame above that
FollowStops == { <<<<MainFile, 2>>, 2>>, <<<<MainFile, 3>>, 1>>,
                 <<<<LibFile, 2>>, 3>>, <<<<LibFile, 3>>, 3>> }

\* ------------------------------------------------------------- state

VARIABLES
    impl,          \* which ValidationManager class is instantiated
    text,          \* content of the start file
    objs,          \* the ValidationSession objects ever allocated, by id
    sessions,      \* this.sessions: ids in the session index
    clearedStores, \* this.clearedStores: ids in the store index
    storeCleared,  \* per store: positions cleared in memory
    storeAux,      \* per store: the rest of the start file's ledger entry in
                   \* memory (content hash, error list) and the marks not flushed
    disk,          \* the persisted ledger: the serialized entry of the start file
    fileHash,      \* digest of the start file's current content
    dbg,           \* the external debug session (depth: the frames of its stack)
    bps,           \* breakpoints requested on the external session
    calls,         \* the startValidation invocations
    creating,      \* ids whose createSession awaits store.initialize()
    faults,        \* target-side failures produced so far
    crashed,       \* the process was killed
    lineInfos,     \* PythonLineAnalyzer.analyzeFile of the start file: isExecutable
                   \* per line, empty before the analysis
    diskLib,       \* the persisted ledger: the serialized entry of the callee's file
    reportDb       \* LineReportStore: the rows of line_reports (per session id
                   \* the status of each row, in insertion order) and of
                   \* session_summaries (per session id the row, if any)

vars == <<impl, text, objs, sessions, clearedStores, storeCleared, storeAux, disk,
          fileHash, dbg, bps, calls, creating, faults, crashed, lineInfos, diskLib,
          reportDb>>

CallIds == 1..MaxCalls
\* one validation session (and its store) is followed from creation to close;
\* an id that is not, or no longer, in the index is an unknown id
SessionIds == {1}

\* ValidationConfig values sessions are created with
Configs ==
    { [mode |-> m, voiceEnabled |-> (m = "pair"), skipCleared |-> k,
       followCalls |-> FALSE, startLine |-> 1, dbgId |-> "d1"] :
        m \in {"pair", "auto"}, k \in BOOLEAN }
    \cup { [mode |-> "auto", voiceEnabled |-> FALSE, skipCleared |-> FALSE,
            followCalls |-> FALSE, startLine |-> 1, dbgId |-> "gone"] }

\* ValidationConfig values with followCalls
FollowConfigs ==
    { [mode |-> m, voiceEnabled |-> (m = "pair"), skipCleared |-> FALSE,
       followCalls |-> TRUE, startLine |-> 1, dbgId |-> "d1"] :
        m \in {"pair", "auto"} }

\* validateFile invocations suspended in followed calls that are modelled
MaxDepth == 2

NoPos == <<"", 0>>

\* no ledger entry
NoHash == 0 - 1

\* markLineCleared flushes at every FlushEvery-th mark
FlushEvery == 2

\* the persisted ledger without an entry for the start file
NoEntry == [hash |-> NoHash, cleared |-> <<>>, errors |-> <<>>]

\* the persisted ledger without an entry for the callee's file
NoLibEntry == [cleared |-> <<>>, errors |-> <<>>]

\* a store without an entry for the start file (libErrors: the error list of
\* the callee's file's entry; dirty: the files whose entry changed in memory
\* since the last flush)
NoAux == [hash |-> NoHash, errors |-> <<>>, pending |-> 0, libErrors |-> <<>>,
          dirty |-> {}]

\* a startValidation invocation: its program position (pc, kind) and its locals
\* (pos; processed: processedLines of validateExecution; snap: clearedLines of
\* validateFile).  For the properties it also keeps what it returned (result,
\* endState: session.state at the return, sawPause), whether a lookup failed
\* when it was made (orchErr), whether it sent a request to the external
\* session (issued), how many errors it recorded, the positions that were
\* cleared in the store when it started (atStart), and the last event of the
\* external session that ended its sweep (event), and whether the step that
\* executes the current line was accepted by the external session (stepOk),
\* and the positions it has marked cleared in this sweep (validated).
\* frames: the suspended validateFile invocations of a followed call, each with
\* its line (pos), its clearedLines (snap) and whether the stack had grown
\* when the call was followed (grew).  For the properties: the stack depth at
\* the stepOver of the current line (depthAt), whether the stack had grown
\* when the pending stepOut was decided (grew), the failures that occurred
\* (failures), and the narration that failed in this invocation (speech:
\* "line" for speakLine, "error" for speakError)
NoCall == [sid |-> 0, pc |-> "idle", kind |-> "none", pos |-> NoPos, processed |-> {},
           snap |-> {},
           result |-> "none", endState |-> "none", issued |-> FALSE, sawPause |-> FALSE,
           recorded |-> 0, orchErr |-> FALSE, atStart |-> {}, event |-> "none",
           stepOk |-> FALSE, validated |-> {},
           frames |-> <<>>, depthAt |-> 0, grew |-> FALSE, failures |-> 0,
           speech |-> "none"]

\* ------------------------------------------------------ line report store
\* (LineReportStore: the two tables of its database)

\* reports stored per session that are followed
MaxReports == 2

\* session ids the callers of the line report store use
ReportSessions == {"r1", "r2"}

\* LineReport.status: CHECK(status IN ('success', 'error', 'warning'))
Statuses == {"success", "error", "warning"}

\* no row of session_summaries for a session id
NoRow == [exists |-> FALSE, total_lines_executed |-> 0, successful_lines |-> 0,
          lines_with_errors |-> 0, total_crashes |-> 0]

\* the database after createTables: both tables empty
NoReports == [line_reports |-> [sid \in ReportSessions |-> <<>>],
              session_summaries |-> [sid \in ReportSessions |-> NoRow]]

\* the counters a caller passes to createSession in its SessionSummary
SummaryInputs ==
    { [exists |-> TRUE, total_lines_executed |-> t, successful_lines |-> k,
       lines_with_errors |-> e, total_crashes |-> x] :
        t \in 0..1, k \in 0..1, e \in 0..1, x \in 0..1 }

\* updateSessionSummary: UPDATE session_summaries SET ... WHERE session_id = ?
\* (no row with that id: nothing is updated)
updateSessionSummary(rows, sid, status) ==
    IF ~rows[sid].exists THEN rows
    ELSE [rows EXCEPT
             ![sid].total_lines_executed = @ + 1,
             ![sid].successful_lines = IF status = "success" THEN @ + 1 ELSE @,
             ![sid].lines_with_errors = IF status = "error" THEN @ + 1 ELSE @,
             ![sid].total_crashes = IF status = "error" THEN @ + 1 ELSE @]

Init ==
    /\ impl \in {"A", "B"}
    /\ text \in MainTexts
    /\ objs = <<>>
    /\ sessions = {}
    /\ clearedStores = {}
    /\ storeCleared = <<>>
    /\ storeAux = <<>>
    /\ disk \in {NoEntry, [hash |-> 0, cleared |-> <<2>>, errors |-> <<>>]}
    /\ fileHash = 0
    /\ dbg \in {[state |-> "paused", pos |-> <<MainFile, 2>>, depth |-> 1],
                [state |-> "running", pos |-> NoPos, depth |-> 0]}
    /\ bps = {}
    /\ calls = [c \in CallIds |-> NoCall]
    /\ creating = {}
    /\ faults = 0
    /\ crashed = FALSE
    /\ lineInfos = <<>>
    /\ diskLib = NoLibEntry
    /\ reportDb = NoReports


\* ------------------------------------------------- shorthand for updates

Sess(c) == objs[calls[c].sid]

SetSess(sid, rec) == objs' = [objs EXCEPT ![sid] = rec]

SetCall(c, rec) == calls' = [calls EXCEPT ![c] = rec]

\* startValidation returns {success: true}: session.state = 'completed'
\* (sawPause: the state the sweep left behind was 'paused')
ReturnSuccess(c, s, k) ==
    /\ SetSess(k.sid, [s EXCEPT !.state = "completed"])
    /\ SetCall(c, [k EXCEPT !.pc = "done", !.kind = "none", !.pos = NoPos,
                           !.processed = {}, !.snap = {}, !.result = "success",
                           !.stepOk = FALSE, !.validated = {}, !.frames = <<>>,
                           !.depthAt = 0, !.grew = FALSE,
                           !.endState = "completed", !.sawPause = (s.state = "paused")])

\* startValidation's catch: session.state = 'error', returns {success: false}
ReturnFailure(c, s, k) ==
    /\ SetSess(k.sid, [s EXCEPT !.state = "error"])
    /\ SetCall(c, [k EXCEPT !.pc = "done", !.kind = "none", !.pos = NoPos,
                           !.processed = {}, !.snap = {}, !.result = "failure",
                           !.stepOk = FALSE, !.validated = {}, !.frames = <<>>,
                           !.depthAt = 0, !.grew = FALSE,
                           !.endState = "error"])

\* --------------------------------------------- external debug session
\* (SessionManager is not part of the sources: modelled from spec section 6)

\* getStackTrace: the frames while paused, none otherwise
StackTop == IF dbg.state = "paused" THEN dbg.pos ELSE NoPos

\* getStackTrace(...).length
StackDepth == IF dbg.state = "paused" THEN dbg.depth ELSE 0

\* what a step / continue request can answer: it succeeds unless the program
\* has ended; it may fail, with a message that does or does not signal the end
StepOutcomes ==
    (IF dbg.state = "terminated" THEN {} ELSE {"ok"})
    \cup (IF dbg.state = "terminated" \/ faults < MaxFaults
          THEN {"exited", "failed"} ELSE {})

\* the event a failed request is for the sweep: the program has ended
\* ("exited": the message signals 'exited' or 'terminated'), or another failure
Event(o) == IF o = "exited" THEN "exited" ELSE "none"

\* the external session after a request with outcome o
DbgAfter(o) ==
    IF o = "ok" THEN [state |-> "running", pos |-> NoPos, depth |-> 0] ELSE dbg

FaultsAfter(o) ==
    IF o # "ok" /\ dbg.state # "terminated" THEN faults + 1 ELSE faults

\* the program stops (breakpoint hit or step done): the 'stopped' event wakes
\* every pending waitForStopped
DbgStoppedAt(p, d) ==
    /\ dbg.state = "running"
    /\ dbg' = [state |-> "paused", pos |-> p, depth |-> d]
    /\ calls' = [c \in CallIds |->
                    IF calls[c].pc = "wait" THEN [calls[c] EXCEPT !.pc = "woke"]
                    ELSE calls[c]]
    /\ UNCHANGED <<impl, text, lineInfos, diskLib, objs, sessions, clearedStores,
                   storeCleared, storeAux, disk, bps, creating, faults, fileHash,
                   crashed, reportDb>>

\* a stop in the frame of the program's entry script: one frame
DbgStopped(p) == DbgStoppedAt(p, 1)

\* the program ends, or the debug session is closed under the orchestrator:
\* no 'stopped' event, no frames any more
DbgTerminated ==
    /\ dbg.state # "terminated"
    /\ dbg' = [state |-> "terminated", pos |-> NoPos, depth |-> 0]
    /\ UNCHANGED <<impl, text, lineInfos, diskLib, objs, sessions, clearedStores,
                   storeCleared, storeAux, disk, bps, calls, creating, faults,
                   fileHash, crashed, reportDb>>


\* ------------------------------------------------------- clearance store
\* (ClearedLinesStore is not part of the sources: modelled from spec sections
\* 3 and 4.2.  One file is tracked, the start file; its content hash is the
\* number of the content's version, distinct contents having distinct hashes)

RECURSIVE Ascending(_), Descending(_)

\* a plausible slip: the comparator of the sort is reversed
Descending(S) ==
    IF S = {} THEN <<>>
    ELSE LET most == CHOOSE x \in S : \A y \in S : x >= y
         IN  <<most>> \o Descending(S \ {most})

\* the numbers of S in ascending order
Ascending(S) ==
    IF S = {} THEN <<>>
    ELSE LET least == CHOOSE x \in S : \A y \in S : x <= y
         IN  <<least>> \o Ascending(S \ {least})

\* the lines of file f among the positions
LinesOf(cleared, f) == { p[2] : p \in { q \in cleared : q[1] = f } }

\* the serialized ledger entry: the cleared lines as a list, the error list
Serialize(cleared, hash, errors) ==
    IF hash = NoHash THEN NoEntry
    ELSE [hash |-> hash, cleared |-> Ascending(LinesOf(cleared, MainFile)),
          errors |-> errors]

\* the serialized ledger entry of the callee's file
SerializeLib(cleared, errors) ==
    [cleared |-> Ascending(LinesOf(cleared, LibFile)), errors |-> errors]

\* a plausible slip: the loop over the list starts one element late
LoadClearedFromSecond(entry) ==
    { <<MainFile, entry.cleared[i]>> : i \in 2..Len(entry.cleared) }

\* what initialize() reads back from a serialized entry
LoadCleared(entry) == { <<MainFile, entry.cleared[i]>> : i \in DOMAIN entry.cleared }

LoadLib(entry) == { <<LibFile, entry.cleared[i]>> : i \in DOMAIN entry.cleared }

LoadAux(entry) ==
    [hash |-> entry.hash, errors |-> entry.errors, pending |-> 0,
     libErrors |-> diskLib.errors, dirty |-> {}]

\* a plausible slip: the stored hash is never compared
StaleNever(sid) == FALSE

\* the staleness check of a read: the entry's hash is not the file's
Stale(sid) == storeAux[sid].hash # NoHash /\ storeAux[sid].hash # fileHash

\* what a read finds cleared: the lines of a valid entry
ValidCleared(sid) ==
    IF Stale(sid) THEN { q \in storeCleared[sid] : q[1] # MainFile }
    ELSE storeCleared[sid]

\* isLineCleared(file, line)
isLineCleared(sid, pos) == pos \in ValidCleared(sid)

\* a read's write: a stale entry is deleted and the deletion persisted
StoreRead(sid, reads) ==
    IF reads /\ Stale(sid)
    THEN /\ storeCleared' = [storeCleared EXCEPT ![sid] = ValidCleared(sid)]
         /\ storeAux' = [storeAux EXCEPT ![sid] =
                            [@ EXCEPT !.hash = NoHash, !.errors = <<>>,
                                      !.pending = 0, !.dirty = @ \ {MainFile}]]
         /\ disk' = NoEntry
         /\ UNCHANGED diskLib
    ELSE UNCHANGED <<storeCleared, storeAux, disk, diskLib>>

\* a plausible slip: the flush comes one mark late
ShouldFlushLate(n) == n > FlushEvery

\* the flush cadence: the n-th mark since the last flush is flushed
ShouldFlush(n) == n >= FlushEvery

\* a flush that rewrites the whole ledger from the store's memory
WritesEntryAlways(f, dirty) == TRUE

\* a flush writes the entries of the files this store changed, and leaves the
\* entries of other paths as they are in the ledger
WritesEntry(f, dirty) == f \in dirty

\* the ledger after a flush of a store holding cl, a (its entries) with the
\* changed files d
Flush(cl, a, d) ==
    /\ disk' = IF WritesEntry(MainFile, d) THEN Serialize(cl, a.hash, a.errors)
               ELSE disk
    /\ diskLib' = IF WritesEntry(LibFile, d) THEN SerializeLib(cl, a.libErrors)
                  ELSE diskLib

\* markLineCleared(file, line): the entry is created if absent, the line added,
\* and the store flushed at the cadence
StoreMark(sid, pos) ==
    LET a     == storeAux[sid]
        h     == IF a.hash = NoHash /\ pos[1] = MainFile THEN fileHash ELSE a.hash
        cl    == storeCleared[sid] \cup {pos}
        n     == a.pending + 1
        d     == a.dirty \cup {pos[1]}
        a1    == [a EXCEPT !.hash = h]
    IN  /\ storeCleared' = [storeCleared EXCEPT ![sid] = cl]
        /\ IF ShouldFlush(n)
           THEN /\ storeAux' = [storeAux EXCEPT ![sid] =
                                   [a1 EXCEPT !.pending = 0, !.dirty = {}]]
                /\ Flush(cl, a1, d)
           ELSE /\ storeAux' = [storeAux EXCEPT ![sid] =
                                   [a1 EXCEPT !.pending = n, !.dirty = d]]
                /\ UNCHANGED <<disk, diskLib>>

\* the store's entries after an error at pos is appended to its file's list
WithError(a, pos) ==
    IF pos[1] = MainFile
    THEN [a EXCEPT !.hash = IF @ = NoHash THEN fileHash ELSE @,
                   !.errors = Append(@, pos[2])]
    ELSE [a EXCEPT !.libErrors = Append(@, pos[2])]

\* a plausible slip: recordError leaves the write to the flush cadence
StoreRecordErrorLazy(sid, pos) ==
    LET a  == storeAux[sid]
    IN  /\ storeAux' = [storeAux EXCEPT ![sid] =
                           [WithError(a, pos) EXCEPT !.dirty = @ \cup {pos[1]}]]
        /\ UNCHANGED <<storeCleared, disk, diskLib>>

\* recordError(file, line, message): the entry is created if absent, the error
\* appended, and the store flushed before it returns
StoreRecordError(sid, pos) ==
    LET a  == WithError(storeAux[sid], pos)
    IN  /\ storeAux' = [storeAux EXCEPT ![sid] =
                           [a EXCEPT !.pending = 0, !.dirty = {}]]
        /\ Flush(storeCleared[sid], a, storeAux[sid].dirty \cup {pos[1]})
        /\ UNCHANGED storeCleared

\* persist()
StorePersist(sid) ==
    /\ Flush(storeCleared[sid], storeAux[sid], storeAux[sid].dirty)
    /\ storeAux' = [storeAux EXCEPT ![sid] = [@ EXCEPT !.pending = 0, !.dirty = {}]]

\* getClearedLines(file): the valid entry's lines, sorted
getClearedLines(sid, f) == Ascending(LinesOf(ValidCleared(sid), f))

\* ------------------------------------------------------ session lifecycle

\* impl A: createValidationSession, up to `await store.initialize()`
\* (seen: the positions getStackTrace has returned for this session; swept:
\* the files whose lines validateFile has walked, in order; marks: the
\* markLineCleared calls its sweeps have completed; all three kept for the
\* properties)
NewSessionA(cfg) ==
    [cfg |-> cfg, state |-> "running", total |-> 0, errors |-> <<>>,
     filesProcessed |-> {}, currentFile |-> MainFile, currentLine |-> cfg.startLine,
     seen |-> {}, swept |-> <<>>, marks |-> 0]

\* impl B: createSession, up to `await store.initialize()`
NewSessionB(cfg) ==
    [cfg |-> cfg, state |-> "paused", total |-> 0, errors |-> <<>>,
     filesProcessed |-> {}, currentFile |-> "", currentLine |-> 0, seen |-> {},
     swept |-> <<>>, marks |-> 0]

CreateBegin(cfg) ==
    /\ Len(objs) < Cardinality(SessionIds)
    /\ LET sid == Len(objs) + 1
       IN  /\ objs' = Append(objs, IF impl = "A" THEN NewSessionA(cfg)
                                   ELSE NewSessionB(cfg))
           /\ storeCleared' = Append(storeCleared, {})
           /\ storeAux' = Append(storeAux, NoAux)
           /\ sessions' = sessions \cup {sid}
           /\ creating' = creating \cup {sid}
    /\ UNCHANGED <<impl, text, lineInfos, clearedStores, disk, diskLib, dbg, bps,
                   calls, faults, fileHash, crashed, reportDb>>

\* store.initialize() resolved (the ledger is loaded): clearedStores.set
CreateFinish(sid) ==
    /\ sid \in creating
    /\ creating' = creating \ {sid}
    /\ storeCleared' = [storeCleared EXCEPT ![sid] = LoadCleared(disk) \cup LoadLib(diskLib)]
    /\ storeAux' = [storeAux EXCEPT ![sid] = LoadAux(disk)]
    /\ clearedStores' = clearedStores \cup {sid}
    /\ UNCHANGED <<impl, text, lineInfos, objs, sessions, disk, diskLib, dbg, bps,
                   calls, faults, fileHash, crashed, reportDb>>

\* store.initialize() rejected: createSession rejects after sessions.set
CreateFailed(sid) ==
    /\ sid \in creating
    /\ creating' = creating \ {sid}
    /\ UNCHANGED <<impl, text, lineInfos, objs, sessions, clearedStores, storeCleared,
                   storeAux, disk, diskLib, dbg, bps, calls, faults, fileHash,
                   crashed, reportDb>>

\* impl A: pauseValidation acts on a session that is running
PauseTargetsA(sid) == sid \in sessions /\ objs[sid].state = "running"

\* impl B: pauseValidation acts on every session of the index
PauseTargetsB(sid) == sid \in sessions

PauseValidation(sid) ==
    /\ IF impl = "A" THEN PauseTargetsA(sid) ELSE PauseTargetsB(sid)
    /\ SetSess(sid, [objs[sid] EXCEPT !.state = "paused"])
    /\ UNCHANGED <<impl, text, lineInfos, sessions, clearedStores, storeCleared,
                   storeAux, disk, diskLib, dbg, bps, calls, creating, faults,
                   fileHash, crashed, reportDb>>

\* a plausible slip: closing an id that is not in the session index throws, as
\* startValidation does
CloseThrowsIfUnknown(sid, sess, stores) == sid \notin sess

\* neither close throws, whatever the indexes hold
CloseThrows(sid, sess, stores) == FALSE

\* the two indexes after closeValidationSession (impl A: both deletes are
\* unconditional) or closeSession (impl B: inside `if (session)`)
CloseIndexes(sid, sess, stores) ==
    IF impl = "A" \/ sid \in sess
    THEN <<sess \ {sid}, stores \ {sid}>>
    ELSE <<sess, stores>>

\* impl A: closeValidationSession (no flush: "Store doesn't have a close method")
CloseA(sid) ==
    /\ impl = "A"
    /\ ~CloseThrows(sid, sessions, clearedStores)
    /\ IF sid \in sessions
       THEN SetSess(sid, [objs[sid] EXCEPT !.state = "completed"])
       ELSE UNCHANGED objs
    /\ sessions' = CloseIndexes(sid, sessions, clearedStores)[1]
    /\ clearedStores' = CloseIndexes(sid, sessions, clearedStores)[2]
    /\ UNCHANGED <<impl, text, lineInfos, storeCleared, storeAux, disk, diskLib, dbg,
                   bps, calls, creating, faults, fileHash, crashed, reportDb>>

\* impl B: closeSession: store.persist(), then both index entries are deleted
CloseB(sid) ==
    /\ impl = "B"
    /\ ~CloseThrows(sid, sessions, clearedStores)
    /\ IF sid \in sessions /\ sid \in clearedStores
       THEN StorePersist(sid)
       ELSE UNCHANGED <<disk, diskLib, storeAux>>
    /\ sessions' = CloseIndexes(sid, sessions, clearedStores)[1]
    /\ clearedStores' = CloseIndexes(sid, sessions, clearedStores)[2]
    /\ UNCHANGED <<impl, text, lineInfos, objs, storeCleared, dbg, bps, calls,
                   creating, faults, fileHash, crashed, reportDb>>


\* the session, its store handle or the external debug session it names is
\* missing when startValidation(sid) is called
LookupFails(sid) ==
    \/ sid \notin sessions
    \/ sid \notin clearedStores
    \/ objs[sid].cfg.dbgId # "d1"

\* ------------------------------------------------ impl A: startValidation

\* narration (speakLine / speakError) runs in pair mode with voiceEnabled; the
\* 'say' process can exit 0, exit non-zero ("say command exited with code n")
\* or fail to spawn
SpeakOutcomes(s) ==
    IF s.cfg.mode = "pair" /\ s.cfg.voiceEnabled /\ faults < MaxFaults
    THEN {"ok", "exited", "failed"} ELSE {"ok"}

\* speakError in the catch block, after `used` failures of the same step of
\* the sweep: it resolves, or it rejects
SpeakErrorOutcomes(s, used) ==
    IF s.cfg.mode = "pair" /\ s.cfg.voiceEnabled /\ faults + used < MaxFaults
    THEN {"ok", "failed"} ELSE {"ok"}

\* the top of `while (session.state === 'running')`: the next iteration asks
\* for the stack trace, or the loop is left and startValidation returns
LoopTopA(c, s, k) ==
    IF s.state = "running"
    THEN /\ SetSess(k.sid, s)
         /\ SetCall(c, [k EXCEPT !.pc = "A_stack", !.kind = "none", !.stepOk = FALSE])
    ELSE ReturnSuccess(c, s, k)

\* a plausible slip: the step is sent and its stop is not awaited
StepWithoutWaitA(c, s, k, cmd, kind, o) ==
    /\ o = "ok"
    /\ dbg' = DbgAfter(o)
    /\ SetSess(k.sid, s)
    /\ SetCall(c, [k EXCEPT !.pc = "A_stack", !.kind = "none", !.issued = TRUE])

\* stepAndWait / stepIntoAndWait inside the try block: the request is answered
\* with outcome o; on success the wait for 'stopped' is pending
StepThenWaitA(c, s, k, cmd, kind, o) ==
    /\ o = "ok"
    /\ dbg' = DbgAfter(o)
    /\ SetSess(k.sid, s)
    /\ SetCall(c, [k EXCEPT !.pc = "wait", !.kind = kind, !.issued = TRUE,
                           !.stepOk = (kind = "validate")])

\* a plausible slip: no message is taken for the end of the program
IsNormalTerminationNever(msg) == FALSE

\* errorMessage.includes('exited') || errorMessage.includes('terminated')
IsNormalTermination(msg) == msg = "exited"

\* a plausible slip: the error is pushed once in the catch block and once more
\* when the recovery is given up
RecordErrorTwice(s) ==
    [s EXCEPT !.errors = Append(Append(@, <<s.currentFile, s.currentLine>>),
                                <<s.currentFile, s.currentLine>>)]

\* session.errorsFound.push({file, line, error, timestamp}) of the catch block
RecordErrorA(s) ==
    [s EXCEPT !.errors = Append(@, <<s.currentFile, s.currentLine>>)]

\* the catch block of validateExecution for an error whose message is msg
\* ("exited": includes 'exited' or 'terminated'), then the one recovery
\* stepAndWait, answered with outcome r
CatchA(c, s, k, msg, sp, r) ==
    IF IsNormalTermination(msg)
    THEN /\ sp = "ok"
         /\ ReturnSuccess(c, s, k)
         /\ UNCHANGED dbg
    ELSE LET s1 == RecordErrorA(s)
             k1 == [k EXCEPT !.recorded = @ + 1, !.stepOk = FALSE]
         IN  IF sp # "ok"
             THEN \* speakError rejects inside the catch block: the error leaves
                  \* validateExecution and reaches startValidation's catch
                  /\ ReturnFailure(c, s1, [k1 EXCEPT !.speech = "error"])
                  /\ UNCHANGED dbg
             ELSE IF r = "ok"
             THEN /\ dbg' = DbgAfter(r)
                  /\ SetSess(k.sid, s1)
                  /\ SetCall(c, [k1 EXCEPT !.pc = "wait", !.kind = "recover",
                                          !.issued = TRUE])
             ELSE \* "Cannot continue after error, ending validation"
                  /\ ReturnSuccess(c, s1, [k1 EXCEPT !.issued = TRUE,
                                                     !.event = "norecover"])
                  /\ UNCHANGED dbg

\* impl A: the three lookups of startValidation all succeed
OrchestrationOkA(sid) ==
    /\ sid \in sessions
    /\ sid \in clearedStores
    /\ objs[sid].cfg.dbgId = "d1"

\* the invocations are used in order; one starts when the earlier ones returned
Sequential(c) == calls[c].pc = "idle" /\ \A b \in CallIds : b < c => calls[b].pc = "done"

\* ... or while an earlier one is still in flight
Overlapping(c) ==
    /\ calls[c].pc = "idle"
    /\ \A b \in CallIds : b < c => calls[b].pc # "idle"
    /\ \E b \in CallIds : b < c /\ calls[b].pc # "done"

\* impl A: startValidation(sessionId) up to its first await
StartBodyA(c, sid) ==
    /\ impl = "A"
    /\ IF ~OrchestrationOkA(sid)
       THEN \* throw new Error('... not found')
            /\ SetCall(c, [calls[c] EXCEPT !.sid = sid, !.pc = "done",
                                           !.result = "rejected",
                                           !.orchErr = LookupFails(sid)])
            /\ UNCHANGED objs
       ELSE LET s == [objs[sid] EXCEPT !.state = "running"]
                k == [calls[c] EXCEPT !.sid = sid, !.orchErr = LookupFails(sid),
                                      !.atStart = ValidCleared(sid)]
            IN  IF dbg.state # "paused"
                THEN \* waitForStopped(10000) registers its listener
                     /\ SetSess(sid, s)
                     /\ SetCall(c, [k EXCEPT !.pc = "wait", !.kind = "first"])
                ELSE LoopTopA(c, s, k)
    /\ UNCHANGED <<impl, text, lineInfos, sessions, clearedStores, storeCleared,
                   storeAux, disk, diskLib, dbg, bps, creating, faults, fileHash,
                   crashed, reportDb>>

StartValidationA(c, sid) == Sequential(c) /\ StartBodyA(c, sid)

StartOverlappingA(c, sid) == Overlapping(c) /\ StartBodyA(c, sid)

\* a plausible slip: the set of processed lines is never consulted
AlreadyProcessedNever(pos, processed) == FALSE

\* processedLines.has(lineKey)
AlreadyProcessed(pos, processed) == pos \in processed

\* impl A: one iteration of validateExecution, from the stack trace to the
\* answer of the step request
IterationA(c, o, sp, r) ==
    /\ impl = "A"
    /\ calls[c].pc = "A_stack"
    /\ StackTop = NoPos \/ (o \in StepOutcomes /\ r \in StepOutcomes)
    /\ sp \in SpeakOutcomes(Sess(c))
    /\ LET k   == calls[c]
           s   == Sess(c)
           pos == StackTop
           s1  == [s EXCEPT !.currentFile = pos[1], !.currentLine = pos[2],
                            !.seen = @ \cup {pos}]
           k1  == [k EXCEPT !.pos = pos, !.processed = @ \cup {pos}]
           lineContent ==
               IF pos[2] <= Len(FileLines(text, pos[1]))
               THEN FileLines(text, pos[1])[pos[2]] ELSE <<>>
           cmd == IF s.cfg.followCalls /\ looksLikeFunctionCall(lineContent)
                  THEN "stepInto" ELSE "stepOver"
       IN  IF pos = NoPos
           THEN \* "No stack trace available, ending validation"
                /\ o = "ok" /\ sp = "ok" /\ r = "ok"
                /\ ReturnSuccess(c, s, [k EXCEPT !.event = "nostack"])
                /\ UNCHANGED <<dbg, faults>>
           ELSE IF AlreadyProcessed(pos, k.processed)
                   \/ (s.cfg.skipCleared /\ isLineCleared(k.sid, pos))
           THEN \* already processed, or already cleared: step over it
                /\ sp = "ok"
                /\ IF o = "ok"
                   THEN /\ r = "ok"
                        /\ StepThenWaitA(c, s1, k1, "stepOver", "skip", o)
                        /\ UNCHANGED faults
                   ELSE \E se \in SpeakErrorOutcomes(s, 1) :
                            /\ CatchA(c, s1,
                                      [k1 EXCEPT !.issued = TRUE, !.event = Event(o)],
                                      o, se, r)
                            /\ faults' = faults + 1 + (IF se = "ok" THEN 0 ELSE 1)
           ELSE IF sp # "ok"
           THEN \* speakLine rejects: no step was issued
                /\ o = "ok"
                /\ \E se \in SpeakErrorOutcomes(s, 1) :
                       /\ CatchA(c, s1, [k1 EXCEPT !.speech = "line"], sp, se, r)
                       /\ faults' = faults + 1 + (IF se = "ok" THEN 0 ELSE 1)
           ELSE IF o = "ok"
           THEN /\ r = "ok"
                /\ StepThenWaitA(c, s1, k1, cmd, "validate", o)
                /\ UNCHANGED faults
           ELSE \E se \in SpeakErrorOutcomes(s, 1) :
                    /\ CatchA(c, s1, [k1 EXCEPT !.issued = TRUE, !.event = Event(o)],
                              o, se, r)
                    /\ faults' = faults + 1 + (IF se = "ok" THEN 0 ELSE 1)
    /\ StoreRead(calls[c].sid,
                 /\ StackTop # NoPos
                 /\ StackTop \notin calls[c].processed
                 /\ Sess(c).cfg.skipCleared)
    /\ UNCHANGED <<impl, text, lineInfos, sessions, clearedStores, bps, creating,
                   fileHash, crashed, reportDb>>

\* impl A: a pending waitForStopped resolved; the code after it runs up to the
\* next request
WokeA(c) ==
    /\ impl = "A"
    /\ calls[c].pc = "woke"
    /\ LET k == calls[c]
           s == Sess(c)
       IN  IF k.kind = "validate"
           THEN \* store.markLineCleared(currentFile, currentLine)
                /\ StoreMark(k.sid, k.pos)
                /\ LoopTopA(c, [s EXCEPT !.marks = @ + 1, !.total = @ + 1],
                            [k EXCEPT !.validated = @ \cup {k.pos}])
           ELSE /\ UNCHANGED <<storeCleared, storeAux, disk, diskLib>>
                /\ LoopTopA(c, s, k)
    /\ UNCHANGED <<impl, text, lineInfos, sessions, clearedStores, dbg, bps, creating,
                   faults, fileHash, crashed, reportDb>>

\* the failures a timeout counts for: none when the program is not running
\* any more
TimedOut == IF dbg.state # "running" THEN 0 ELSE 1

\* impl A: a pending waitForStopped timed out
TimeoutA(c, r) ==
    /\ impl = "A"
    /\ calls[c].pc = "wait"
    /\ dbg.state # "running" \/ faults < MaxFaults
    /\ calls[c].kind \in {"first", "recover"} \/ r \in StepOutcomes
    /\ LET k == calls[c]
           s == Sess(c)
       IN  CASE k.kind = "first" ->
                  \* the wait before the sweep: startValidation's catch
                  /\ r = "ok"
                  /\ ReturnFailure(c, s, k)
                  /\ UNCHANGED dbg
             [] k.kind = "recover" ->
                  /\ r = "ok"
                  /\ ReturnSuccess(c, s, [k EXCEPT !.event = "norecover"])
                  /\ UNCHANGED dbg
             [] OTHER ->
                  \E se \in SpeakErrorOutcomes(s, TimedOut) :
                      /\ CatchA(c, s, k, "failed", se, r)
                      /\ faults' = faults + TimedOut + (IF se = "ok" THEN 0 ELSE 1)
    /\ calls[c].kind \in {"first", "recover"} => faults' = faults + TimedOut
    /\ UNCHANGED <<impl, text, lineInfos, sessions, clearedStores, storeCleared,
                   storeAux, disk, diskLib, bps, creating, fileHash, crashed,
                   reportDb>>

NextA ==
    \/ \E cfg \in Configs : CreateBegin(cfg)
    \/ \E sid \in SessionIds : CreateFinish(sid)
    \/ \E sid \in SessionIds : CreateFailed(sid)
    \/ \E sid \in SessionIds : PauseValidation(sid)
    \/ \E sid \in SessionIds : CloseA(sid)
    \/ \E c \in CallIds, sid \in SessionIds : StartValidationA(c, sid)
    \/ \E c \in CallIds, o, sp, r \in {"ok", "exited", "failed"} : IterationA(c, o, sp, r)
    \/ \E c \in CallIds : WokeA(c)
    \/ \E c \in CallIds, r \in {"ok", "exited", "failed"} : TimeoutA(c, r)
    \/ \E p \in MainPositions(text) : DbgStopped(p)
    \/ DbgTerminated

InitA == Init /\ impl = "A" /\ text = TextScenario

SpecA == InitA /\ [][NextA]_vars


\* ------------------------------------------------ impl B: startValidation

\* impl B: the two lookups of startValidation succeed
OrchestrationOkB(sid) ==
    /\ sid \in sessions
    /\ sid \in clearedStores

\* store.getClearedLines(file): the cleared lines of the file's ledger entry
ClearedLinesOf(sid, f) ==
    { getClearedLines(sid, f)[i] : i \in DOMAIN getClearedLines(sid, f) }

\* a plausible slip: the snapshot of cleared lines is taken whatever skipCleared says
SnapshotAlways(sid, f, skip) == ClearedLinesOf(sid, f)

\* impl B: clearedLines of validateFile
Snapshot(sid, f, skip) == IF skip THEN ClearedLinesOf(sid, f) ELSE {}

\* the lines the for loop of validateFile passes over without validating them,
\* from line n on: cleared according to the snapshot, or not executable
Passed(lines, snap, n) == n \in snap \/ ~isExecutableLine(lines[n])

\* the first line >= n the loop validates, or Len(lines) + 1
NextLine(lines, snap, n) ==
    IF \E m \in n..Len(lines) : ~Passed(lines, snap, m)
    THEN CHOOSE m \in n..Len(lines) :
             ~Passed(lines, snap, m) /\ \A j \in n..(m - 1) : Passed(lines, snap, j)
    ELSE Len(lines) + 1

\* a plausible slip: the processed-files set is never consulted
FileAlreadyProcessedNever(f, processed) == FALSE

\* session.filesProcessed.has(normalized)
FileAlreadyProcessed(f, processed) == f \in processed

\* validateFile entered for file f: filesProcessed.add, currentFile
EnterFile(s, f) ==
    [s EXCEPT !.filesProcessed = @ \cup {f}, !.currentFile = f,
              !.swept = Append(@, f)]

\* the followed validateFile returns to the handleFunctionCalls that called it
PopFrame(k) ==
    LET top == k.frames[Len(k.frames)]
    IN  [k EXCEPT !.pos = top.pos, !.snap = top.snap, !.grew = top.grew,
                  !.frames = SubSeq(@, 1, Len(@) - 1)]

\* handleFunctionCalls: sessionManager.stepOut, answered with outcome o
StepOutB(c, s, k, o) ==
    /\ o \in (IF dbg.state = "terminated" THEN {} ELSE {"ok"})
             \cup (IF dbg.state = "terminated" \/ faults < MaxFaults
                   THEN {"failed"} ELSE {})
    /\ SetSess(k.sid, s)
    /\ SetCall(c, [k EXCEPT !.pc = "B_sent", !.kind = "out", !.issued = TRUE])
    /\ dbg' = DbgAfter(o)
    /\ faults' = FaultsAfter(o)
    /\ UNCHANGED bps

\* impl B: the for loop of validateFile from line n, after an await resolved:
\* leave on a state other than running, skip, and enter validateLine for the
\* next line to validate (up to `await setBreakpoint`); at the end of the file
\* startValidation returns, or the followed call is stepped out of (outcome o)
LoopB(c, s, k, n, o) ==
    LET f     == k.pos[1]
        lines == FileLines(text, f)
        m     == NextLine(lines, k.snap, n)
        stop  == s.state # "running" /\ n <= Len(lines)
        sEnd  == IF stop THEN s
                 ELSE [s EXCEPT !.currentLine =
                          IF n <= Len(lines) THEN Len(lines) ELSE @]
    IN  IF stop \/ m > Len(lines)
        THEN IF k.frames = <<>>
             THEN /\ ReturnSuccess(c, sEnd, k)
                  /\ UNCHANGED <<bps, dbg, faults>>
             ELSE StepOutB(c, sEnd, PopFrame(k), o)
        ELSE LET s1 == [s EXCEPT !.currentLine = m]
                 k1 == [k EXCEPT !.pos = <<f, m>>, !.stepOk = FALSE]
             IN  IF s.cfg.dbgId # "d1"
                 THEN \* validateLine throws 'Debug session ... not found'; the
                      \* catch of validateFile records it (recordError awaited)
                      /\ SetSess(k.sid, [s1 EXCEPT !.errors = Append(@, <<f, m>>)])
                      /\ SetCall(c, [k1 EXCEPT !.pc = "B_rec", !.recorded = @ + 1,
                                              !.failures = @ + 1])
                      /\ UNCHANGED <<bps, dbg, faults>>
                 ELSE \* sessionManager.setBreakpoint(debugSessionId, file, m)
                      /\ SetSess(k.sid, s1)
                      /\ SetCall(c, [k1 EXCEPT !.pc = "B_bp", !.issued = TRUE])
                      /\ bps' = bps \cup {<<f, m>>}
                      /\ UNCHANGED <<dbg, faults>>

\* impl B: startValidation(sessionId) up to the first await of validateLine
StartBodyB(c, sid) ==
    /\ impl = "B"
    /\ IF ~OrchestrationOkB(sid)
       THEN /\ SetCall(c, [calls[c] EXCEPT !.sid = sid, !.pc = "done",
                                           !.result = "rejected",
                                           !.orchErr = LookupFails(sid)])
            /\ UNCHANGED <<objs, bps, dbg, faults>>
       ELSE LET s == [objs[sid] EXCEPT !.state = "running"]
                k == [calls[c] EXCEPT !.sid = sid, !.orchErr = LookupFails(sid),
                                      !.atStart = ValidCleared(sid)]
            IN  IF FileAlreadyProcessed(MainFile, s.filesProcessed)
                THEN \* validateFile: "already processed, skipping"
                     /\ ReturnSuccess(c, s, k)
                     /\ UNCHANGED <<bps, dbg, faults>>
                ELSE LoopB(c,
                           EnterFile(s, MainFile),
                           [k EXCEPT !.pos = <<MainFile, s.cfg.startLine>>,
                                     !.snap = Snapshot(sid, MainFile, s.cfg.skipCleared)],
                           s.cfg.startLine, "ok")
    /\ StoreRead(sid,
                 /\ OrchestrationOkB(sid)
                 /\ ~FileAlreadyProcessed(MainFile, objs[sid].filesProcessed)
                 /\ objs[sid].cfg.skipCleared)
    /\ UNCHANGED <<impl, text, lineInfos, sessions, clearedStores, creating, fileHash,
                   crashed, reportDb>>

StartValidationB(c, sid) == Sequential(c) /\ StartBodyB(c, sid)

StartOverlappingB(c, sid) == Overlapping(c) /\ StartBodyB(c, sid)

\* what a request of impl B (which ignores the answer's success flag) does to
\* the external session: it resumes the program, or it is refused
RequestOutcomes ==
    (IF dbg.state = "terminated" THEN {} ELSE {"ok"})
    \cup (IF dbg.state = "terminated" \/ faults < MaxFaults THEN {"failed"} ELSE {})

\* impl B, validateLine: setBreakpoint answered; `continue` is sent if the
\* session is not paused, else stepOver
BreakpointSetB(c, o) ==
    /\ impl = "B"
    /\ calls[c].pc = "B_bp"
    /\ o \in RequestOutcomes
    /\ SetCall(c, [calls[c] EXCEPT !.pc = "B_sent",
                       !.kind = IF dbg.state # "paused" THEN "bp" ELSE "step",
                       !.stepOk = (dbg.state = "paused" /\ o = "ok"),
                       !.depthAt = IF dbg.state = "paused" THEN dbg.depth ELSE @])
    /\ dbg' = DbgAfter(o)
    /\ faults' = FaultsAfter(o)
    /\ UNCHANGED <<impl, text, lineInfos, objs, sessions, clearedStores, storeCleared,
                   storeAux, disk, diskLib, bps, creating, fileHash, crashed,
                   reportDb>>

\* impl B: the request sent (continue, stepOver, stepOut) is answered;
\* waitForStopped registers its listener for the next 'stopped' event
RegisterB(c) ==
    /\ impl = "B"
    /\ calls[c].pc = "B_sent"
    /\ SetCall(c, [calls[c] EXCEPT !.pc = "wait"])
    /\ UNCHANGED <<impl, text, lineInfos, objs, sessions, clearedStores, storeCleared,
                   storeAux, disk, diskLib, dbg, bps, creating, faults, fileHash,
                   crashed, reportDb>>

\* validateLine after its stepOver completed: config.followCalls and
\* lineInfo.functionCalls non-empty
FollowsCalls(s, pos) ==
    s.cfg.followCalls /\ HasFunctionCalls(FileLines(text, pos[1])[pos[2]])

\* impl B: a pending waitForStopped resolved
WokeB(c, o) ==
    /\ impl = "B"
    /\ calls[c].pc = "woke"
    /\ LET k == calls[c]
       IN  IF k.kind = "bp"
           THEN \* the breakpoint was reached: stepOver
                /\ o \in RequestOutcomes
                /\ SetCall(c, [k EXCEPT !.pc = "B_sent", !.kind = "step",
                                        !.stepOk = (o = "ok"),
                                        !.depthAt = StackDepth])
                /\ dbg' = DbgAfter(o)
                /\ faults' = FaultsAfter(o)
                /\ UNCHANGED <<objs, storeCleared, storeAux, disk, diskLib>>
           ELSE IF k.kind = "step" /\ FollowsCalls(Sess(c), k.pos)
           THEN \* handleFunctionCalls: sessionManager.getStackTrace
                /\ o = "ok"
                /\ SetCall(c, [k EXCEPT !.pc = "B_stack", !.kind = "none"])
                /\ UNCHANGED <<objs, dbg, faults, storeCleared, storeAux, disk,
                               diskLib>>
           ELSE \* the step is done, or the followed call is stepped out of:
                \* store.markLineCleared(file, lineNum)
                /\ o = "ok"
                /\ SetCall(c, [k EXCEPT !.pc = "B_mark", !.kind = "none"])
                /\ SetSess(k.sid, [Sess(c) EXCEPT !.marks = @ + 1])
                /\ StoreMark(k.sid, k.pos)
                /\ UNCHANGED <<dbg, faults>>
    /\ UNCHANGED <<impl, text, lineInfos, sessions, clearedStores, bps, creating,
                   fileHash, crashed, reportDb>>

\* impl B, handleFunctionCalls: getStackTrace answered.  With more than one
\* frame validateFile is called for the top frame's file and line, then
\* stepOut is sent (outcome o); otherwise validateLine returns and the line
\* is marked
StackB(c, o) ==
    /\ impl = "B"
    /\ calls[c].pc = "B_stack"
    /\ LET k    == calls[c]
           s    == [Sess(c) EXCEPT !.seen = @ \cup ({StackTop} \ {NoPos})]
           top  == StackTop
           grew == StackDepth > k.depthAt
       IN  IF StackDepth > 1
           THEN /\ IF FileAlreadyProcessed(top[1], s.filesProcessed)
                   THEN \* "already processed, skipping"
                        StepOutB(c, s, [k EXCEPT !.grew = grew], o)
                   ELSE /\ Len(k.frames) < MaxDepth
                        /\ LoopB(c, EnterFile(s, top[1]),
                                 [k EXCEPT !.frames =
                                               Append(@, [pos |-> k.pos,
                                                          snap |-> k.snap,
                                                          grew |-> grew]),
                                           !.pos = top,
                                           !.snap = Snapshot(k.sid, top[1],
                                                             s.cfg.skipCleared)],
                                 top[2], o)
                /\ UNCHANGED <<storeCleared, storeAux, disk, diskLib>>
           ELSE /\ o = "ok"
                /\ SetSess(k.sid, [s EXCEPT !.marks = @ + 1])
                /\ SetCall(c, [k EXCEPT !.pc = "B_mark"])
                /\ StoreMark(k.sid, k.pos)
                /\ UNCHANGED <<dbg, faults, bps>>
    /\ UNCHANGED <<impl, text, lineInfos, sessions, clearedStores, creating, fileHash,
                   crashed, reportDb>>

\* a plausible slip: validateLine catches the timeout of its wait, logs it and
\* goes on, so that validateFile marks the line
TimeoutBSwallowed(c) ==
    /\ impl = "B"
    /\ calls[c].pc = "wait"
    /\ dbg.state # "running" \/ faults < MaxFaults
    /\ SetCall(c, [calls[c] EXCEPT !.pc = "B_mark", !.kind = "none"])
    /\ SetSess(calls[c].sid, [Sess(c) EXCEPT !.marks = @ + 1])
    /\ StoreMark(calls[c].sid, calls[c].pos)
    /\ faults' = IF dbg.state # "running" THEN faults ELSE faults + 1
    /\ UNCHANGED <<impl, text, lineInfos, sessions, clearedStores, dbg, bps, creating,
                   fileHash, crashed, reportDb>>

\* impl B: a pending waitForStopped timed out: the catch of validateFile
\* records the error (recordError flushes the store)
TimeoutB(c) ==
    /\ impl = "B"
    /\ calls[c].pc = "wait"
    /\ dbg.state # "running" \/ faults < MaxFaults
    /\ LET k == calls[c]
           s == Sess(c)
       IN  /\ SetSess(k.sid, [s EXCEPT !.errors = Append(@, k.pos)])
           /\ SetCall(c, [k EXCEPT !.pc = "B_rec", !.kind = "none",
                                   !.recorded = @ + 1, !.failures = @ + 1])
    /\ faults' = IF dbg.state # "running" THEN faults ELSE faults + 1
    /\ UNCHANGED <<impl, text, lineInfos, sessions, clearedStores, storeCleared,
                   storeAux, disk, diskLib, dbg, bps, creating, fileHash, crashed,
                   reportDb>>

\* a plausible slip: the counter is not advanced after markLineCleared
MarkedBUncounted(c, o) ==
    /\ impl = "B"
    /\ calls[c].pc = "B_mark"
    /\ LoopB(c, Sess(c), calls[c], calls[c].pos[2] + 1, o)
    /\ UNCHANGED <<impl, text, lineInfos, sessions, clearedStores, storeCleared,
                   storeAux, disk, diskLib, creating, fileHash, crashed, reportDb>>

\* impl B: markLineCleared resolved: the counter, then the next line
MarkedB(c, o) ==
    /\ impl = "B"
    /\ calls[c].pc = "B_mark"
    /\ LoopB(c, [Sess(c) EXCEPT !.total = @ + 1], calls[c], calls[c].pos[2] + 1, o)
    /\ UNCHANGED <<impl, text, lineInfos, sessions, clearedStores, storeCleared,
                   storeAux, disk, diskLib, creating, fileHash, crashed, reportDb>>

\* impl B: recordError resolved: pair mode pauses and throws, to the catch of
\* the validateFile that followed the call (which records the calling line) or
\* to startValidation's catch; auto mode goes on with the next line
RecordedB(c, o) ==
    /\ impl = "B"
    /\ calls[c].pc = "B_rec"
    /\ LET k == calls[c]
           s == Sess(c)
       IN  IF s.cfg.mode = "pair"
           THEN IF k.frames = <<>>
                THEN /\ ReturnFailure(c, [s EXCEPT !.state = "paused"], k)
                     /\ UNCHANGED <<bps, dbg, faults>>
                ELSE /\ SetSess(k.sid, [s EXCEPT !.state = "paused",
                                                !.errors = Append(@, PopFrame(k).pos)])
                     /\ SetCall(c, [PopFrame(k) EXCEPT !.recorded = @ + 1])
                     /\ UNCHANGED <<bps, dbg, faults>>
           ELSE LoopB(c, s, k, k.pos[2] + 1, o)
    /\ StoreRecordError(calls[c].sid, calls[c].pos)
    /\ UNCHANGED <<impl, text, lineInfos, sessions, clearedStores, creating, fileHash,
                   crashed, reportDb>>

NextB ==
    \/ \E cfg \in Configs : CreateBegin(cfg)
    \/ \E sid \in SessionIds : CreateFinish(sid)
    \/ \E sid \in SessionIds : CreateFailed(sid)
    \/ \E sid \in SessionIds : PauseValidation(sid)
    \/ \E sid \in SessionIds : CloseB(sid)
    \/ \E c \in CallIds, sid \in SessionIds : StartValidationB(c, sid)
    \/ \E c \in CallIds, o \in {"ok", "failed"} : BreakpointSetB(c, o)
    \/ \E c \in CallIds : RegisterB(c)
    \/ \E c \in CallIds, o \in {"ok", "failed"} : WokeB(c, o)
    \/ \E c \in CallIds : TimeoutB(c)
    \/ \E c \in CallIds : MarkedB(c, "ok")
    \/ \E c \in CallIds : RecordedB(c, "ok")
    \/ DbgStopped(<<MainFile, 2>>)
    \/ DbgTerminated

InitB == Init /\ impl = "B"

SpecB == InitB /\ [][NextB]_vars

Next == NextA \/ NextB

Spec == Init /\ [][Next]_vars

\* overlapping invocations of startValidation, the program under test and
\* the narration never failing
NextOverlap ==
    \/ Next
    \/ \E c \in CallIds, sid \in SessionIds : StartOverlappingA(c, sid)
    \/ \E c \in CallIds, sid \in SessionIds : StartOverlappingB(c, sid)

InitOverlap ==
    /\ impl \in {"A", "B"}
    /\ text = TextScenario
    /\ objs = <<>>
    /\ sessions = {}
    /\ clearedStores = {}
    /\ storeCleared = <<>>
    /\ storeAux = <<>>
    /\ disk = NoEntry
    /\ fileHash = 0
    /\ dbg = [state |-> "paused", pos |-> <<MainFile, 2>>, depth |-> 1]
    /\ bps = {}
    /\ calls = [c \in CallIds |-> NoCall]
    /\ creating = {}
    /\ faults = MaxFaults
    /\ crashed = FALSE
    /\ lineInfos = <<>>
    /\ diskLib = NoLibEntry
    /\ reportDb = NoReports

SpecOverlap == InitOverlap /\ [][NextOverlap]_vars

\* --------------------------------------------- edits, crashes, the store

\* the start file is edited: its content, hence its digest, changes (the edit
\* leaves the classification of its lines alone)
ModifyFile ==
    /\ fileHash < MaxEdits
    /\ fileHash' = fileHash + 1
    /\ UNCHANGED <<impl, text, lineInfos, objs, sessions, clearedStores, storeCleared,
                   storeAux, disk, diskLib, dbg, bps, calls, creating, faults,
                   crashed, reportDb>>

\* the process is killed: the indexes and the invocations in flight are gone,
\* the persisted ledger stays (storeCleared and storeAux keep what the memory
\* held at that moment)
Crash ==
    /\ ~crashed
    /\ clearedStores # {}
    /\ crashed' = TRUE
    /\ sessions' = {}
    /\ clearedStores' = {}
    /\ creating' = {}
    /\ calls' = [c \in CallIds |->
                    IF calls[c].pc \in {"idle", "done"} THEN calls[c]
                    ELSE [calls[c] EXCEPT !.pc = "done", !.kind = "none",
                                          !.pos = NoPos, !.processed = {},
                                          !.snap = {}, !.result = "crashed",
                                          !.stepOk = FALSE, !.validated = {},
                                          !.frames = <<>>, !.depthAt = 0,
                                          !.grew = FALSE]]
    /\ UNCHANGED <<impl, text, lineInfos, objs, storeCleared, storeAux, disk, diskLib,
                   fileHash, dbg, bps, faults, reportDb>>

\* the sweeps of both classes with edits of the start file and crashes; the
\* requests of the program under test are not refused
NextStore ==
    \/ Next
    \/ ModifyFile
    \/ Crash

InitStore ==
    /\ impl \in {"A", "B"}
    /\ text = TextScenario
    /\ objs = <<>>
    /\ sessions = {}
    /\ clearedStores = {}
    /\ storeCleared = <<>>
    /\ storeAux = <<>>
    /\ disk \in {NoEntry, [hash |-> 0, cleared |-> <<2>>, errors |-> <<>>]}
    /\ fileHash = 0
    /\ dbg = [state |-> "paused", pos |-> <<MainFile, 2>>, depth |-> 1]
    /\ bps = {}
    /\ calls = [c \in CallIds |-> NoCall]
    /\ creating = {}
    /\ faults = MaxFaults
    /\ crashed = FALSE
    /\ lineInfos = <<>>
    /\ diskLib = NoLibEntry
    /\ reportDb = NoReports

SpecStore == InitStore /\ [][NextStore]_vars

\* ------------------------------------- the second class following calls

\* the sweep of the second class with followCalls: the program stops in the
\* start file and in the callee's file
NextFollow ==
    \/ \E cfg \in FollowConfigs : CreateBegin(cfg)
    \/ \E sid \in SessionIds : CreateFinish(sid)
    \/ \E sid \in SessionIds : PauseValidation(sid)
    \/ \E c \in CallIds, sid \in SessionIds : StartValidationB(c, sid)
    \/ \E c \in CallIds, o \in {"ok", "failed"} : BreakpointSetB(c, o)
    \/ \E c \in CallIds : RegisterB(c)
    \/ \E c \in CallIds, o \in {"ok", "failed"} : WokeB(c, o)
    \/ \E c \in CallIds, o \in {"ok", "failed"} : StackB(c, o)
    \/ \E c \in CallIds : TimeoutB(c)
    \/ \E c \in CallIds, o \in {"ok", "failed"} : MarkedB(c, o)
    \/ \E c \in CallIds, o \in {"ok", "failed"} : RecordedB(c, o)
    \/ \E st \in FollowStops : DbgStoppedAt(st[1], st[2])
    \/ DbgTerminated

InitFollow ==
    /\ impl = "B"
    /\ text = TextFollow
    /\ objs = <<>>
    /\ sessions = {}
    /\ clearedStores = {}
    /\ storeCleared = <<>>
    /\ storeAux = <<>>
    /\ disk = NoEntry
    /\ fileHash = 0
    /\ dbg \in {[state |-> "paused", pos |-> <<MainFile, 2>>, depth |-> 2],
                [state |-> "running", pos |-> NoPos, depth |-> 0]}
    /\ bps = {}
    /\ calls = [c \in CallIds |-> NoCall]
    /\ creating = {}
    /\ faults = 0
    /\ crashed = FALSE
    /\ lineInfos = <<>>
    /\ diskLib = NoLibEntry
    /\ reportDb = NoReports

SpecFollow == InitFollow /\ [][NextFollow]_vars

\* ------------------------------ two sessions sharing one persistence location

\* two sessions of the second class, their stores rooted at the same location
SharedStores == {1, 2}

\* config.startFile of the two sessions: the file the sweep of each clears
StoreFile(sid) == IF sid = 1 THEN MainFile ELSE LibFile

SharedConfig ==
    [mode |-> "auto", voiceEnabled |-> FALSE, skipCleared |-> FALSE,
     followCalls |-> FALSE, startLine |-> 1, dbgId |-> "d1"]

\* both sessions are created, their stores initialized from the empty ledger
InitShared ==
    /\ impl = "B"
    /\ text = TextScenario
    /\ objs = [sid \in SharedStores |-> NewSessionB(SharedConfig)]
    /\ sessions = SharedStores
    /\ clearedStores = SharedStores
    /\ storeCleared = [sid \in SharedStores |-> {}]
    /\ storeAux = [sid \in SharedStores |-> NoAux]
    /\ disk = NoEntry
    /\ fileHash = 0
    /\ dbg = [state |-> "paused", pos |-> <<MainFile, 2>>, depth |-> 1]
    /\ bps = {}
    /\ calls = [c \in CallIds |-> NoCall]
    /\ creating = {}
    /\ faults = MaxFaults
    /\ crashed = FALSE
    /\ lineInfos = <<>>
    /\ diskLib = NoLibEntry
    /\ reportDb = NoReports

\* the sweep of session sid has validated line n of its file:
\* store.markLineCleared(file, n)
MarkShared(sid, n) ==
    /\ sid \in clearedStores
    /\ n \in 1..Len(FileLines(text, StoreFile(sid)))
    /\ StoreMark(sid, <<StoreFile(sid), n>>)
    /\ UNCHANGED <<impl, text, lineInfos, objs, sessions, clearedStores, dbg, bps,
                   calls, creating, faults, fileHash, crashed, reportDb>>

NextShared ==
    \/ \E sid \in SharedStores, n \in 1..3 : MarkShared(sid, n)
    \/ \E sid \in SharedStores : CloseB(sid)

SpecShared == InitShared /\ [][NextShared]_vars

\* -------------------------------------------- the line analyzer on its own

\* line shapes: no delimiter, a delimiter alone, an odd number of one style
\* after code, an even number of one style, an odd number of both styles
QuoteLines ==
    { <<"x">>,
      TripleDouble,
      TripleSingle,
      <<"x", "=">> \o TripleDouble,
      <<"x", "=">> \o TripleSingle,
      <<"x", "=">> \o TripleDouble \o <<"a">> \o TripleDouble,
      <<"x", "=">> \o TripleSingle \o <<"a">> \o TripleSingle,
      <<"x", "=">> \o TripleDouble \o TripleSingle }

QuoteTexts == UNION { [1..n -> QuoteLines] : n \in 1..MaxLines }

InitQuote ==
    /\ impl = "A"
    /\ text \in QuoteTexts
    /\ objs = <<>>
    /\ sessions = {}
    /\ clearedStores = {}
    /\ storeCleared = <<>>
    /\ storeAux = <<>>
    /\ disk = NoEntry
    /\ fileHash = 0
    /\ dbg = [state |-> "running", pos |-> NoPos, depth |-> 0]
    /\ bps = {}
    /\ calls = [c \in CallIds |-> NoCall]
    /\ creating = {}
    /\ faults = 0
    /\ crashed = FALSE
    /\ lineInfos = <<>>
    /\ diskLib = NoLibEntry
    /\ reportDb = NoReports

\* analyzeFile(filePath): lines.map((line, index) => isExecutableLine(line,
\* index + 1, lines))
AnalyzeFile ==
    /\ lineInfos = <<>>
    /\ lineInfos' = [n \in 1..Len(text) |-> AnalyzerIsExecutable(n, text)]
    /\ UNCHANGED <<impl, text, objs, sessions, clearedStores, storeCleared, storeAux,
                   disk, diskLib, fileHash, dbg, bps, calls, creating, faults,
                   crashed, reportDb>>

NextQuote == AnalyzeFile

SpecQuote == InitQuote /\ [][NextQuote]_vars

\* ------------------------------------------- the line report store in use

\* addLineReport(report): INSERT INTO line_reports, then updateSessionSummary
addLineReport(sid, status) ==
    /\ Len(reportDb.line_reports[sid]) < MaxReports
    /\ reportDb' =
           [line_reports |->
                [reportDb.line_reports EXCEPT ![sid] = Append(@, status)],
            session_summaries |->
                updateSessionSummary(reportDb.session_summaries, sid, status)]
    /\ UNCHANGED <<impl, text, objs, sessions, clearedStores, storeCleared, storeAux,
                   disk, diskLib, fileHash, dbg, bps, calls, creating, faults,
                   crashed, lineInfos>>

\* createSession(summary): INSERT OR REPLACE INTO session_summaries
createSession(sid, summary) ==
    /\ reportDb' = [reportDb EXCEPT !.session_summaries[sid] = summary]
    /\ UNCHANGED <<impl, text, objs, sessions, clearedStores, storeCleared, storeAux,
                   disk, diskLib, fileHash, dbg, bps, calls, creating, faults,
                   crashed, lineInfos>>

NextReports ==
    \/ \E sid \in ReportSessions, status \in Statuses : addLineReport(sid, status)
    \/ \E sid \in ReportSessions, summary \in SummaryInputs : createSession(sid, summary)

\* the store after initialize(): the database is open, its tables are empty
InitReports ==
    /\ impl = "A"
    /\ text = TextScenario
    /\ objs = <<>>
    /\ sessions = {}
    /\ clearedStores = {}
    /\ storeCleared = <<>>
    /\ storeAux = <<>>
    /\ disk = NoEntry
    /\ fileHash = 0
    /\ dbg = [state |-> "running", pos |-> NoPos, depth |-> 0]
    /\ bps = {}
    /\ calls = [c \in CallIds |-> NoCall]
    /\ creating = {}
    /\ faults = 0
    /\ crashed = FALSE
    /\ lineInfos = <<>>
    /\ diskLib = NoLibEntry
    /\ reportDb = NoReports

SpecReports == InitReports /\ [][NextReports]_vars

\* impl A where the orchestrator's steps are taken when they can be, every
\* 'stopped' event the program owes is delivered and every timer fires: each
\* await of a sweep resolves or rejects
SpecFairA ==
    /\ InitA
    /\ [][NextA]_vars
    /\ WF_vars(\E c \in CallIds, o, sp, r \in {"ok", "exited", "failed"} :
                   IterationA(c, o, sp, r))
    /\ WF_vars(\E c \in CallIds : WokeA(c))
    /\ WF_vars(\E c \in CallIds, r \in {"ok", "exited", "failed"} : TimeoutA(c, r))
    /\ WF_vars(\E p \in MainPositions(text) : DbgStopped(p))

\* ------------------------------------------- two sessions of one manager

\* startValidation of either class; the invocations are used in order,
\* sequentially or overlapping, on either session
StartTwo(c, sid) ==
    /\ calls[c].pc = "idle"
    /\ \A b \in CallIds : b < c => calls[b].pc # "idle"
    /\ IF impl = "A" THEN StartBodyA(c, sid) ELSE StartBodyB(c, sid)

\* closeValidationSession / closeSession of either class
CloseTwo(sid) == IF impl = "A" THEN CloseA(sid) ELSE CloseB(sid)

\* both sessions are created on the same external debug session, each with
\* its own store; the requests of the program under test are not refused
InitTwo ==
    /\ impl \in {"A", "B"}
    /\ text = TextScenario
    /\ objs = [sid \in SharedStores |->
                  IF impl = "A" THEN NewSessionA(SharedConfig)
                  ELSE NewSessionB(SharedConfig)]
    /\ sessions = SharedStores
    /\ clearedStores = SharedStores
    /\ storeCleared = [sid \in SharedStores |-> {}]
    /\ storeAux = [sid \in SharedStores |-> NoAux]
    /\ disk = NoEntry
    /\ fileHash = 0
    /\ dbg = [state |-> "paused", pos |-> <<MainFile, 2>>, depth |-> 1]
    /\ bps = {}
    /\ calls = [c \in CallIds |-> NoCall]
    /\ creating = {}
    /\ faults = MaxFaults
    /\ crashed = FALSE
    /\ lineInfos = <<>>
    /\ diskLib = NoLibEntry
    /\ reportDb = NoReports

NextTwo ==
    \/ \E sid \in SharedStores : PauseValidation(sid)
    \/ \E sid \in SharedStores : CloseTwo(sid)
    \/ \E c \in CallIds, sid \in SharedStores : StartTwo(c, sid)
    \/ \E c \in CallIds, o, sp, r \in {"ok", "exited", "failed"} : IterationA(c, o, sp, r)
    \/ \E c \in CallIds : WokeA(c)
    \/ \E c \in CallIds, r \in {"ok", "exited", "failed"} : TimeoutA(c, r)
    \/ \E c \in CallIds, o \in {"ok", "failed"} : BreakpointSetB(c, o)
    \/ \E c \in CallIds : RegisterB(c)
    \/ \E c \in CallIds, o \in {"ok", "failed"} : WokeB(c, o)
    \/ \E c \in CallIds : TimeoutB(c)
    \/ \E c \in CallIds : MarkedB(c, "ok")
    \/ \E c \in CallIds : RecordedB(c, "ok")
    \/ \E p \in MainPositions(text) : DbgStopped(p)
    \/ DbgTerminated

SpecTwo == InitTwo /\ [][NextTwo]_vars

\* ================================================================ properties

InFlight(c) == calls[c].pc \notin {"idle", "done"}

AllowedTransitions ==
    { <<"running", "paused">>, <<"running", "completed">>, <<"running", "error">>,
      <<"paused", "running">> }

\* C1: the state of a session that stays in the index changes only along
\* running -> paused | completed | error and paused -> running; completed and
\* error are never left
C1_OnlyAllowedTransitions ==
    [][\A sid \in sessions \cap sessions' :
          objs'[sid].state # objs[sid].state
              => <<objs[sid].state, objs'[sid].state>> \in AllowedTransitions]_vars

\* C2: a startValidation during which a failure of the program under test was
\* recorded in errorsFound still returns success (in pair and in auto mode)
C2_TargetFailuresReturnSuccess ==
    \A c \in CallIds :
        (calls[c].pc = "done" /\ calls[c].recorded > 0) => calls[c].result = "success"

\* C3: a startValidation whose session, store handle or debug session is
\* missing fails at once: it is rejected without having sent a request and
\* without an entry in errorsFound
C3_MissingLookupFailsAtOnce ==
    \A c \in CallIds :
        calls[c].orchErr =>
            /\ calls[c].pc = "done"
            /\ calls[c].result = "rejected"
            /\ ~calls[c].issued
            /\ calls[c].recorded = 0

\* C4: a sweep that found the session paused at its between-lines test returns
\* with the session in state paused
C4_PausedAtReturn ==
    \A c \in CallIds :
        (calls[c].pc = "done" /\ calls[c].sawPause) => calls[c].endState = "paused"

\* every line of the start file that impl B takes for executable is cleared in
\* the store or has an entry in errorsFound
AllVisited(sid) ==
    \A n \in 1..Len(text) :
        isExecutableLine(text[n]) =>
            \/ <<MainFile, n>> \in storeCleared[sid]
            \/ \E i \in 1..Len(objs[sid].errors) : objs[sid].errors[i] = <<MainFile, n>>

\* C5: after a sweep that was left on a pause, a later startValidation of the
\* same session that returns completed, itself not paused, has visited the
\* remaining lines
C5_ResumeVisitsTheRest ==
    \A c \in CallIds \ {1} :
        ( /\ calls[c - 1].pc = "done" /\ calls[c - 1].sawPause
          /\ calls[c].sid = calls[c - 1].sid
          /\ calls[c].pc = "done" /\ calls[c].result = "success"
          /\ ~calls[c].sawPause
          /\ calls[c].sid \in sessions )
        => AllVisited(calls[c].sid)

\* C6: at most one startValidation is in flight for a session
C6_OneSweepPerSession ==
    \A sid \in SessionIds :
        Cardinality({ c \in CallIds : calls[c].sid = sid /\ InFlight(c) }) <= 1

\* C7: when the stack trace is empty, or a step fails with a message that
\* signals the end of the program, startValidation returns success at once, the
\* session is completed and nothing is added to errorsFound
C7_ProgramEndIsNoError ==
    [][\A c \in CallIds :
          (calls[c].event = "none" /\ calls'[c].event \in {"nostack", "exited"})
              => /\ calls'[c].pc = "done"
                 /\ calls'[c].result = "success"
                 /\ calls'[c].endState = "completed"
                 /\ objs'[calls'[c].sid].state = "completed"
                 /\ objs'[calls'[c].sid].errors = objs[calls'[c].sid].errors]_vars

\* C7 witness: one sweep ended on a failed step that signalled the end of the
\* program and another on an empty stack trace, nothing recorded
C7_Witness ==
    \E c, d \in CallIds :
        /\ calls[c].event = "exited" /\ calls[d].event = "nostack"
        /\ calls[c].result = "success" /\ calls[d].result = "success"
        /\ objs[calls[c].sid].errors = <<>>

\* C8 as stated: when the recovery resume after a runtime error fails too, the
\* session ends in state error with exactly one entry in errorsFound
C8_RecoveryFailureEndsInError ==
    \A c \in CallIds :
        calls[c].event = "norecover" =>
            /\ calls[c].endState = "error"
            /\ Len(objs[calls[c].sid].errors) = 1

\* C8 amended: when the recovery resume after a runtime error fails too, the
\* sweep ends, startValidation returns success with the session completed, and
\* the failing line has the one entry the catch block pushed (none is added
\* when the recovery's wait is what failed)
C8_RecoveryFailureEndsCompleted ==
    [][\A c \in CallIds :
          (calls[c].event # "norecover" /\ calls'[c].event = "norecover")
              => LET sid == calls'[c].sid
                     added == IF calls[c].kind = "recover" THEN 0 ELSE 1
                 IN  /\ calls'[c].pc = "done"
                     /\ calls'[c].result = "success"
                     /\ calls'[c].endState = "completed"
                     /\ objs'[sid].state = "completed"
                     /\ Len(objs'[sid].errors) = Len(objs[sid].errors) + added
                     /\ objs'[sid].errors[Len(objs'[sid].errors)]
                            = <<objs'[sid].currentFile, objs'[sid].currentLine>>]_vars

\* C8 witness: a sweep ended on a failed recovery with its single error
C8_Witness ==
    \E c \in CallIds :
        /\ calls[c].event = "norecover"
        /\ calls[c].result = "success"
        /\ calls[c].recorded = 1
        /\ Len(objs[calls[c].sid].errors) = 1

\* C9: a breakpoint is armed only on a line the Line Classifier
\* (PythonLineAnalyzer.isExecutableLine) takes for executable
C9_BreakpointsOnExecutableLines ==
    \A p \in bps : AnalyzerIsExecutable(p[2], FileLines(text, p[1]))

\* C10: with skipCleared a line cleared before the sweep started gets no
\* breakpoint, is not marked again and is not counted; a line the sweep passes
\* over is not executable, was stepped on before in this sweep, or (with
\* skipCleared only) was cleared before the sweep started
C10_SkipCleared ==
    [][\A c \in CallIds :
          (calls'[c] # calls[c] /\ calls'[c].pc # "idle" /\ calls'[c].sid \in sessions)
              => LET sid    == calls'[c].sid
                     skip   == objs[sid].cfg.skipCleared
                     before == calls'[c].atStart
                     from   == IF calls[c].pos = NoPos THEN objs[sid].cfg.startLine - 1
                               ELSE calls[c].pos[2]
                 IN  /\ skip => (bps' \ bps) \cap before = {}
                     /\ (skip /\ (objs'[sid].total > objs[sid].total
                                  \/ storeCleared'[sid] # storeCleared[sid]))
                            => calls[c].pos \notin before
                     /\ (impl = "B" /\ calls'[c].pos # NoPos)
                            => \A j \in (from + 1)..(calls'[c].pos[2] - 1) :
                                   \/ ~isExecutableLine(text[j])
                                   \/ skip /\ <<MainFile, j>> \in before
                     /\ (impl = "A" /\ calls[c].pc = "A_stack" /\ calls'[c].kind = "skip")
                            => \/ calls'[c].pos \in calls[c].processed
                               \/ skip /\ calls'[c].pos \in before]_vars

\* C10 witness: line 2 was cleared before the sweep of a skipCleared session,
\* which armed its only breakpoint on line 3
C10_Witness ==
    \E c \in CallIds :
        /\ calls[c].pc = "B_bp"
        /\ objs[calls[c].sid].cfg.skipCleared
        /\ calls[c].atStart = {<<MainFile, 2>>}
        /\ calls[c].pos = <<MainFile, 3>>
        /\ bps = {<<MainFile, 3>>}

\* invocation c reads the store in this step: the snapshot of cleared lines of
\* validateFile, or isLineCleared for a line not stepped on before
ReadsStore(c) ==
    /\ ~crashed'
    /\ calls'[c].sid \in sessions
    /\ objs[calls'[c].sid].cfg.skipCleared
    /\ \/ /\ impl = "B"
          /\ calls[c].pc = "idle" /\ calls'[c].pc # "idle"
          /\ calls'[c].result # "rejected"
          /\ MainFile \notin objs[calls'[c].sid].filesProcessed
       \/ /\ impl = "A"
          /\ calls[c].pc = "A_stack" /\ calls'[c] # calls[c]
          /\ StackTop # NoPos
          /\ StackTop \notin calls[c].processed

\* C11: a read of the store whose entry was written for another content of the
\* file discards the entry and persists the deletion before it returns; no
\* line is then cleared, and the sweep skips no line because of the entry
C11_StaleEntryDiscarded ==
    [][\A c \in CallIds :
          LET sid == calls'[c].sid
          IN  (ReadsStore(c) /\ storeAux[sid].hash \notin {NoHash, fileHash})
                  => /\ storeCleared'[sid] = {}
                     /\ storeAux'[sid].hash = NoHash
                     /\ disk' = NoEntry
                     /\ calls'[c].snap = {}
                     /\ calls'[c].kind # "skip"]_vars

\* C11 witness: lines were marked, the file was edited, and a sweep with
\* skipCleared in flight has found the store without a cleared line
C11_Witness ==
    \E c \in CallIds :
        /\ InFlight(c)
        /\ objs[calls[c].sid].cfg.skipCleared
        /\ objs[calls[c].sid].total > 0
        /\ fileHash > 0
        /\ storeCleared[calls[c].sid] = {}
        /\ disk = NoEntry

\* C12: a line is marked cleared, and the counter raised, only by the
\* invocation whose step for that line was accepted and whose wait was
\* resolved by a stop; the step in which a failure is recorded marks no line
\* and leaves the counter alone
C12_MarkOnlyAfterObservedStep ==
    [][\A c \in CallIds :
          (calls'[c] # calls[c] /\ calls[c].sid \in DOMAIN objs)
              => LET sid == calls[c].sid
                 IN  /\ (\/ ~(storeCleared'[sid] \subseteq storeCleared[sid])
                         \/ objs'[sid].total > objs[sid].total)
                            => /\ calls[c].stepOk
                               /\ calls[c].pc \in {"woke", "B_mark"}
                               /\ storeCleared'[sid] \subseteq
                                      storeCleared[sid] \cup {calls[c].pos}
                     /\ calls'[c].recorded > calls[c].recorded
                            => /\ storeCleared'[sid] \subseteq storeCleared[sid]
                               /\ objs'[sid].total = objs[sid].total]_vars

\* C12 witness: a sweep validated one line and recorded a failure at another,
\* which is not cleared
C12_Witness ==
    \E c \in CallIds :
        /\ calls[c].recorded > 0
        /\ objs[calls[c].sid].total > 0
        /\ objs[calls[c].sid].errors # <<>>
        /\ objs[calls[c].sid].errors[1] \notin storeCleared[calls[c].sid]

\* C13: when a close discards a session's store, every line the store holds
\* as cleared is in the persisted ledger
C13_CloseFlushesTheStore ==
    [][\A sid \in SessionIds :
          (sid \in clearedStores /\ sid \notin clearedStores' /\ ~crashed')
              => storeCleared[sid] \subseteq LoadCleared(disk')]_vars

C15_RecordedErrorsAreDurable ==
    [][/\ \A sid \in clearedStores' :
              storeAux'[sid].errors = LoadAux(disk').errors
       /\ (crashed' /\ ~crashed) => disk' = disk]_vars

\* C15 witness: the process was killed after recordError had returned, and the
\* ledger still lists the error
C15_Witness ==
    /\ crashed
    /\ Len(disk.errors) > 0
    /\ \E c \in DOMAIN calls : calls[c].recorded > 0

\* the cleared lines a store handle holds that the persisted ledger lacks
Unflushed(sid, ledger) == storeCleared[sid] \ LoadCleared(ledger)

\* C16: after every step each store handle has fewer than FlushEvery marks
\* waiting for a flush and fewer than FlushEvery cleared lines missing from the
\* persisted ledger; a crash leaves the ledger as it was, so it loses fewer than
\* FlushEvery lines
C16_UnflushedBelowInterval ==
    [][/\ \A sid \in clearedStores' :
              /\ storeAux'[sid].pending < FlushEvery
              /\ Cardinality(Unflushed(sid, disk)') < FlushEvery
       /\ (crashed' /\ ~crashed)
              => /\ disk' = disk
                 /\ \A sid \in clearedStores :
                        Cardinality(Unflushed(sid, disk')) < FlushEvery]_vars

\* C16 witness: the process was killed while a cleared line waited for its
\* flush, and the ledger holds an entry flushed earlier
C16_Witness ==
    /\ crashed
    /\ \E sid \in SessionIds :
           /\ Unflushed(sid, disk) # {}
           /\ LoadCleared(disk) # {}
           /\ objs[sid].total > 0

\* how often x occurs in a list
Count(seq, x) == Cardinality({ i \in DOMAIN seq : seq[i] = x })

StrictlyAscending(seq) == \A i \in 1..(Len(seq) - 1) : seq[i] < seq[i + 1]

\* C17: after every step getClearedLines is strictly ascending; after a step
\* in which a sweep marks a line (its store entry is touched) of an unchanged
\* file the line occurs in the list exactly once, and marking a line that was
\* cleared already leaves the list as it was
C17_MarkIdempotentSortedList ==
    [][\A sid \in clearedStores' :
          /\ StrictlyAscending(getClearedLines(sid, MainFile)')
          /\ \A c \in CallIds : \A pos \in {calls[c].pos} :
                 (/\ calls[c].sid = sid
                  /\ calls[c].pc = "woke"
                  /\ calls'[c] # calls[c]
                  /\ storeAux'[sid] # storeAux[sid]
                  /\ ~Stale(sid)')
                     => /\ Count(getClearedLines(sid, pos[1])', pos[2]) = 1
                        /\ pos \in ValidCleared(sid)
                               => getClearedLines(sid, pos[1])'
                                      = getClearedLines(sid, pos[1])]_vars

\* C17 witness: with the file unchanged, more marks were made than lines are
\* cleared, so some line was marked twice; two lines are listed
C17_Witness ==
    \E sid \in clearedStores :
        /\ fileHash = 0
        /\ disk # [hash |-> 0, cleared |-> <<2>>, errors |-> <<>>]
        /\ Len(getClearedLines(sid, MainFile)) >= 2
        /\ objs[sid].total > Len(getClearedLines(sid, MainFile))

\* C18: whenever a step writes the ledger, a store initialized from what was
\* written holds the cleared lines and the error list of the store that wrote
\* it, under the same content hash
C18_PersistInitializeRoundTrip ==
    [][disk' # disk
          => \A sid \in clearedStores :
                 /\ LoadCleared(disk') = storeCleared'[sid]
                 /\ LoadAux(disk').errors = storeAux'[sid].errors
                 /\ LoadAux(disk').hash = storeAux'[sid].hash]_vars

\* C18 witness: a session was closed, and the ledger holds what its store
\* held: two cleared lines and an error
C18_Witness ==
    \E sid \in DOMAIN objs :
        /\ sid \notin clearedStores
        /\ ~crashed
        /\ Len(disk.cleared) >= 2
        /\ Len(disk.errors) >= 1
        /\ LoadCleared(disk) = storeCleared[sid]

IsPrefix(a, b) == Len(a) <= Len(b) /\ \A i \in DOMAIN a : a[i] = b[i]

IsSuffix(a, b) ==
    Len(a) <= Len(b) /\ \A i \in DOMAIN a : a[i] = b[Len(b) - Len(a) + i]

\* the line numbers of a list of errors
ErrorLines(errs) == [i \in DOMAIN errs |-> errs[i][2]]

\* C19: across every step errorsFound of a session in the index only grows at
\* its end; and once no invocation stands between the push and recordError,
\* the errors of errorsFound are the last entries of the store's error list
C19_ErrorsAlsoInTheStore ==
    [][\A sid \in sessions \cap sessions' :
          /\ IsPrefix(objs[sid].errors, objs'[sid].errors)
          /\ (/\ sid \in clearedStores'
              /\ \A c \in CallIds : ~(calls'[c].sid = sid /\ calls'[c].pc = "B_rec"))
                 => IsSuffix(ErrorLines(objs'[sid].errors), storeAux'[sid].errors)]_vars

\* C20: when the sweep of impl B has recorded an error at a line, then in pair
\* mode the invocation returns with the session in state paused, and in auto
\* mode the invocation goes on with the lines that follow: it returns only
\* when no line is left or the session was paused or closed
C20_PairPausesAutoContinues ==
    [][\A c \in CallIds : \A sid \in {calls[c].sid} :
          (/\ impl = "B"
           /\ calls[c].pc = "B_rec"
           /\ calls'[c] # calls[c]
           /\ ~crashed')
              => IF objs[sid].cfg.mode = "pair"
                 THEN /\ calls'[c].pc = "done"
                      /\ calls'[c].endState = "paused"
                 ELSE \/ calls'[c].pc \in {"B_bp", "B_rec"}
                      \/ /\ calls'[c].pc = "done"
                         /\ calls'[c].result = "success"]_vars

\* C22: the currentLine of a session in the index, when set, is the line of a
\* position that getStackTrace returned earlier for that session
C22_CurrentLineWasReported ==
    \A sid \in sessions :
        objs[sid].currentLine # 0
            => \E p \in objs[sid].seen : p[2] = objs[sid].currentLine

\* C23: when a startValidation has returned and no other is in flight, no
\* breakpoint armed by a sweep is left on the external session
C23_BreakpointsClearedAtReturn ==
    (/\ \E c \in CallIds : calls[c].pc = "done"
     /\ \A c \in CallIds : ~InFlight(c))
        => bps = {}

\* C25: a wait for a stop that times out (the wait of a recovery resume apart)
\* is recorded in errorsFound by the invocation it belongs to and does not make
\* startValidation fail
C25_TimeoutIsRecoverable ==
    [][\A c \in CallIds :
          (/\ calls[c].pc = "wait"
           /\ calls[c].kind # "recover"
           /\ calls'[c].pc \notin {"wait", "woke"}
           /\ ~crashed')
              => /\ calls'[c].recorded = calls[c].recorded + 1
                 /\ calls'[c].result # "failure"]_vars

\* C28: in impl A a step that marks a line or raises the counter is for a
\* position the sweep has not marked before; and an iteration that finds the
\* program at a position it has visited marks nothing, counts nothing and
\* goes on without validating
C28_VisitedPositionNotProcessedAgain ==
    [][\A c \in CallIds : \A sid \in {calls[c].sid} :
          (impl = "A" /\ calls'[c] # calls[c] /\ sid \in DOMAIN objs /\ ~crashed')
              => /\ (/\ calls[c].pc = "woke"
                     /\ \/ objs'[sid].total > objs[sid].total
                        \/ storeAux'[sid] # storeAux[sid])
                        => calls[c].pos \notin calls[c].validated
                 /\ (calls[c].pc = "A_stack" /\ StackTop \in calls[c].processed)
                        => /\ calls'[c].kind # "validate"
                           /\ objs'[sid].total = objs[sid].total
                           /\ storeCleared'[sid] = storeCleared[sid]]_vars

\* C28 witness: the program is back at a position the sweep has validated, and
\* the sweep steps over it
C28_Witness ==
    \E c \in CallIds :
        /\ impl = "A"
        /\ calls[c].pc = "wait"
        /\ calls[c].kind = "skip"
        /\ calls[c].pos \in calls[c].validated
        /\ objs[calls[c].sid].total > 0

\* C24: a sweep of impl A that has entered its loop leaves it: the
\* startValidation it belongs to returns, however long the program under test
\* keeps stopping
C24_SweepLoopTerminates ==
    \A c \in CallIds : (calls[c].pc = "A_stack") ~> (calls[c].pc = "done")

\* the span state the claim's rule gives after a line, from the state before it
\* and the parities of the two delimiter counts, the styles taken in the order
\* first, second
StyleRule(st, odd, style) ==
    IF ~odd THEN st
    ELSE IF ~st[1] THEN <<TRUE, style>>
    ELSE IF st[2] = style THEN <<FALSE, "none">>
    ELSE st

\* C26: a line is classified non-executable when the scan of all prior lines
\* leaves a triple-quoted span open, and each line changes the span state by
\* the per-style rule: an odd number of delimiters of a style opens a span if
\* none is open and closes the open span only if it is of that style, an even
\* number changes nothing
C26_OpenSpanIsNotExecutable ==
    lineInfos # <<>> =>
        \A n \in 1..Len(text) :
            LET before == QuoteScan(text, n - 1)
                after  == QuoteScan(text, n)
                oddD   == CountTriple(text[n], DQ, 1) % 2 = 1
                oddS   == CountTriple(text[n], SQ, 1) % 2 = 1
            IN  /\ before[1] => ~lineInfos[n]
                /\ after \in { StyleRule(StyleRule(before, oddD, "double"), oddS, "single"),
                               StyleRule(StyleRule(before, oddS, "single"), oddD, "double") }
                /\ (before[1] /\ after # before)
                       => IF before[2] = "double" THEN oddD ELSE oddS

\* a double-quoted span is open, a line of the other style does not close it,
\* and the line after it, which reads like a statement, is not executable
C26_Witness ==
    /\ lineInfos # <<>>
    /\ Len(text) = 3
    /\ text[1] = <<"x", "=">> \o TripleDouble
    /\ text[2] = <<"x", "=">> \o TripleSingle
    /\ text[3] = <<"x">>
    /\ ~lineInfos[3]
    /\ QuoteScan(text, 2) = <<TRUE, "double">>

C27_OneErrorPerFailure ==
    \A c \in CallIds : calls[c].recorded <= calls[c].failures

\* C29: with followCalls no file is swept twice in one session, and the
\* recursion never goes deeper than the files there are
C29_EachFileSweptOnce ==
    \A sid \in DOMAIN objs :
        /\ \A i, j \in DOMAIN objs[sid].swept :
               objs[sid].swept[i] = objs[sid].swept[j] => i = j
        /\ \A c \in CallIds : Len(calls[c].frames) < Cardinality(Files)

\* a followed call whose top frame is in a file already processed has returned
\* at once: both files are swept, and a stepOut follows without a new sweep
C29_Witness ==
    \E c \in CallIds :
        /\ calls[c].pc = "B_sent"
        /\ calls[c].kind = "out"
        /\ calls[c].frames # <<>>
        /\ objs[calls[c].sid].swept = <<MainFile, LibFile>>

\* C30: a stepOut is sent only when the stack had grown relative to the frame
\* of the calling line when the call was followed
C30_StepOutOnlyAfterEnteringCallee ==
    \A c \in CallIds :
        (calls[c].pc = "B_sent" /\ calls[c].kind = "out") => calls[c].grew

\* the program positions at which getStackTrace is pending
StackPcs == {"A_stack", "B_stack"}

C32_StopNeverMissed ==
    [][\A c \in CallIds :
          (/\ calls[c].pc = "wait" /\ calls[c].stepOk
           /\ calls'[c].pc \notin {"wait", "woke"})
              => dbg.state # "paused"]_vars


\* C33: whenever a registered session is in state running, a sweep loop for it
\* is in progress (a startValidation call of that session has not returned): a
\* session that was created and never started, or whose startValidation calls
\* have all returned, is not running
C33_RunningOnlyWhileSweeping ==
    \A sid \in sessions :
        objs[sid].state = "running"
            => \E c \in CallIds : calls[c].sid = sid /\ InFlight(c)


\* C34: at every point another call can observe, a session id is in the
\* session index if and only if it has a store handle in the store index
C34_SessionIffStore ==
    sessions = clearedStores


\* the sessions that were created and have been closed: their id has left the
\* session index
Closed == (1..Len(objs)) \ sessions

\* C35: after closeValidationSession(id) has returned, the sweep of that
\* session issues no further step or continue to the external debug session
\* (none of its calls resumes the program) and performs no further
\* markLineCleared or recordError on its store
C35_ClosedSessionIsQuiet ==
    [][\A sid \in Closed :
          (\E c \in CallIds : calls[c].sid = sid /\ calls'[c] # calls[c])
              => /\ storeCleared'[sid] = storeCleared[sid]
                 /\ storeAux'[sid].errors = storeAux[sid].errors
                 /\ ~(dbg.state # "running" /\ dbg'.state = "running")]_vars


\* the startValidation calls of session sid whose markLineCleared has
\* completed and whose counter update is still to run
MidMark(sid) == { c \in CallIds : calls[c].sid = sid /\ calls[c].pc = "B_mark" }

\* C36: a session's totalLinesValidated never decreases (pauseValidation and a
\* later startValidation do not reset it); between the iterations of its
\* sweeps it equals the number of markLineCleared calls these sweeps have
\* completed; and it changes only in a step of one of its own startValidation
\* calls, never through an operation on another session
C36_TotalCountsCompletedMarks ==
    [][\A sid \in DOMAIN objs :
          /\ objs'[sid].total >= objs[sid].total
          /\ MidMark(sid) = {} => objs[sid].total = objs[sid].marks
          /\ objs'[sid].total # objs[sid].total
                 => \E c \in CallIds : /\ calls[c].sid = sid
                                       /\ calls'[c] # calls[c]
                                       /\ \A b \in CallIds \ {c} : calls'[b] = calls[b]]_vars

C36_Witness ==
    /\ \A sid \in SharedStores : objs[sid].total > 0
    /\ \E sid \in SharedStores : objs[sid].state = "paused"
    /\ \E c \in CallIds : calls[c].pc = "done" /\ calls[c].result = "success"


\* C37: a failure of the narration in pair mode never causes a line to be
\* recorded as a validation error, never prevents that line from being
\* stepped (after a failed speakLine the sweep goes on to the step of that
\* line and waits for its stop), and never makes startValidation return
\* success=false
C37_NarrationFailureIsHarmless ==
    [][\A c \in CallIds :
          calls'[c].speech # calls[c].speech
              => /\ calls'[c].result # "failure"
                 /\ calls'[c].speech = "line"
                        => /\ objs'[calls'[c].sid].errors = objs[calls'[c].sid].errors
                           /\ calls'[c].pc = "wait"]_vars


\* C38: in the line report store the summary of every session that has stored
\* reports exists, its total_lines_executed is the number of reports stored
\* for the session, successful_lines + lines_with_errors is at most that
\* total, and total_crashes = lines_with_errors = the number of stored reports
\* with status error
C38_SummaryMatchesReports ==
    \A sid \in ReportSessions :
        LET rows == reportDb.line_reports[sid]
            sum  == reportDb.session_summaries[sid]
        IN  rows # <<>>
                => /\ sum.exists
                   /\ sum.total_lines_executed = Len(rows)
                   /\ sum.successful_lines + sum.lines_with_errors
                          <= sum.total_lines_executed
                   /\ sum.total_crashes = sum.lines_with_errors
                   /\ sum.lines_with_errors = Count(rows, "error")

====
